---- MODULE Spec2Model ----
(***************************************************************************)
(* A model of stringest's record ingestion engine:                         *)
(*   - Message            (src/src/stringest/message.py)                   *)
(*   - AbstractStep.apply (src/src/stringest/steps/base.py) and two of the *)
(*     built-in steps                                                      *)
(*   - Field.ingest, Schema._apply_to_record, Schema.process_chunk         *)
(*                        (src/src/stringest/schema.py)                    *)
(***************************************************************************)
EXTENDS Integers, Sequences, FiniteSets, Bags, TLC

\* ------------------------------------------------------------------ bounds
\* Longest raw input string.
MaxLen == 2
\* Longest step list of a field.
MaxSteps == 2

\* ------------------------------------------------------------------ values
\* A Python value: None, a str (a sequence of characters) or an int.
None == [t |-> "none", s |-> <<>>, n |-> 0]
StrV(s) == [t |-> "str", s |-> s, n |-> 0]
IntV(n) == [t |-> "int", s |-> <<>>, n |-> n]

Whitespace == {" "}
Digits == {"7"}
Chars == Whitespace \cup Digits \cup {"x"}

StringsUpTo(n) == UNION {[1..k -> Chars] : k \in 0..n}

\* str.lstrip / str.rstrip / str.strip with no argument: whitespace is removed
\* from both ends, never from the middle.
RECURSIVE LStrip(_)
LStrip(s) ==
    IF s # <<>> /\ Head(s) \in Whitespace THEN LStrip(Tail(s)) ELSE s

RECURSIVE RStrip(_)
RStrip(s) ==
    IF s # <<>> /\ s[Len(s)] \in Whitespace
    THEN RStrip(SubSeq(s, 1, Len(s) - 1))
    ELSE s

Strip(s) == RStrip(LStrip(s))

\* int(str): ValueError unless the string is a non-empty run of digits
\* (surrounding whitespace was already stripped by the caller or is stripped by
\* int itself).
IsNumeric(s) ==
    LET t == Strip(s) IN t # <<>> /\ \A i \in 1..Len(t) : t[i] \in Digits

DigitValue(c) == IF c = "7" THEN 7 ELSE 0

RECURSIVE ParseDigits(_, _)
ParseDigits(s, acc) ==
    IF s = <<>> THEN acc ELSE ParseDigits(Tail(s), acc * 10 + DigitValue(Head(s)))

\* ---------------------------------------------------------------- messages
Statuses == {"ERROR", "INFO", "WARNING", "INTERNAL_ERROR"}

\* Message(status, content); content is kept as a tuple of its textual parts.
Message(status, content) == [status |-> status, content |-> content]

\* Python's None in the place of an Optional[Message].
NoMessage == [status |-> "NONE", content |-> <<>>]

is_error(m) == m.status \in {"INTERNAL_ERROR", "ERROR"}

\* Variant of downgrade: an INTERNAL_ERROR is downgraded too.
downgrade_any(m) ==
    IF m.status = "INTERNAL_ERROR" THEN Message("ERROR", m.content)
    ELSE IF m.status = "ERROR" THEN Message("WARNING", m.content)
    ELSE IF m.status = "WARNING" THEN Message("INFO", m.content)
    ELSE m

downgrade(m) ==
    IF m.status = "ERROR" THEN Message("WARNING", m.content)
    ELSE IF m.status = "WARNING" THEN Message("INFO", m.content)
    ELSE m

upgrade(m) ==
    IF m.status = "INFO" THEN Message("WARNING", m.content)
    ELSE IF m.status = "WARNING" THEN Message("ERROR", m.content)
    ELSE m

\* ------------------------------------------------------------------- steps
\* What one call of a step produces: either it raises, or it returns the tuple
\* (value, success, message).
Returned(v, ok, m) ==
    [raised |-> FALSE, exc |-> "", value |-> v, success |-> ok, message |-> m]
Raised(exc) ==
    [raised |-> TRUE, exc |-> exc, value |-> None, success |-> FALSE,
     message |-> NoMessage]

\* A step that obeys only the signature of AbstractStep.apply: it raises, or it
\* returns its input or None, a success flag, and a message of some status or
\* no message.
Stub(name, raises, keep, ok, status) ==
    [kind |-> "stub", name |-> name, raises |-> raises, keep |-> keep,
     success |-> ok, status |-> status]

StubApply(step, v) ==
    IF step.raises THEN Raised("RuntimeError")
    ELSE Returned(IF step.keep THEN v ELSE None,
                  step.success,
                  IF step.status = "NONE" THEN NoMessage
                  ELSE Message(step.status, <<"note from", step.name>>))

BuiltinParserInt ==
    [kind |-> "BuiltinParser", name |-> "BuiltinParser(type_name='int')",
     raises |-> FALSE, keep |-> FALSE, success |-> TRUE, status |-> "NONE"]

\* Variant of BuiltinParserApply: a str that is no number parses as 0.
BuiltinParserApplyLenient(v) ==
    IF v = None
    THEN Returned(None, FALSE,
                  Message("ERROR", <<"Null value cannot be parsed as builtin">>))
    ELSE IF v.t = "str" /\ ~IsNumeric(v.s)
    THEN Returned(IntV(0), TRUE, NoMessage)
    ELSE IF v.t = "str"
    THEN Returned(IntV(ParseDigits(Strip(v.s), 0)), TRUE, NoMessage)
    ELSE Returned(v, TRUE, NoMessage)

\* BuiltinParser(type_name="int").apply
BuiltinParserApply(v) ==
    IF v = None
    THEN Returned(None, FALSE,
                  Message("ERROR", <<"Null value cannot be parsed as builtin">>))
    ELSE IF v.t = "str" /\ ~IsNumeric(v.s)
    THEN Returned(None, FALSE,
                  Message("ERROR", <<"Unable to parse string due to incorrect format">>))
    ELSE IF v.t = "str"
    THEN Returned(IntV(ParseDigits(Strip(v.s), 0)), TRUE, NoMessage)
    ELSE Returned(v, TRUE, NoMessage)

TruncateOne ==
    [kind |-> "Truncate", name |-> "Truncate(length=1)",
     raises |-> FALSE, keep |-> FALSE, success |-> TRUE, status |-> "NONE"]

\* Truncate(length=1).apply
TruncateApply(v) ==
    IF v = None THEN Returned(None, TRUE, NoMessage)
    ELSE IF v.t # "str"
    THEN Returned(None, FALSE, Message("ERROR", <<"Cannot truncate non-string">>))
    ELSE Returned(StrV(SubSeq(v.s, 1, IF Len(v.s) < 1 THEN Len(v.s) ELSE 1)),
                  TRUE, NoMessage)

\* step(value), i.e. AbstractStep.__call__
Apply(step, v) ==
    CASE step.kind = "BuiltinParser" -> BuiltinParserApply(v)
      [] step.kind = "Truncate" -> TruncateApply(v)
      [] OTHER -> StubApply(step, v)

StepRaise == Stub("Raise", TRUE, FALSE, FALSE, "NONE")
StepFailKeep == Stub("FailKeep", FALSE, TRUE, FALSE, "ERROR")
StepFailNull == Stub("FailNull", FALSE, FALSE, FALSE, "ERROR")
StepFailSilent == Stub("FailSilent", FALSE, TRUE, FALSE, "NONE")
StepFailInternal == Stub("FailInternal", FALSE, FALSE, FALSE, "INTERNAL_ERROR")
StepOkInfo == Stub("OkInfo", FALSE, TRUE, TRUE, "INFO")
StepOkError == Stub("OkError", FALSE, TRUE, TRUE, "ERROR")
StepNullify == Stub("Nullify", FALSE, FALSE, TRUE, "NONE")

StepCatalogue ==
    {StepRaise, StepFailKeep, StepFailNull, StepFailSilent, StepFailInternal,
     StepOkInfo, StepOkError, StepNullify, BuiltinParserInt, TruncateOne}

StepLists == UNION {[1..k -> StepCatalogue] : k \in 0..MaxSteps}

\* ------------------------------------------------------------------ fields
\* The source of a field (Field.name): an inbound column name, a Constant or a
\* Special.
Column(c) == [kind |-> "column", col |-> c, value |-> None]
Constant(v) == [kind |-> "constant", col |-> "", value |-> v]
Special(value_type) == [kind |-> "special", col |-> value_type, value |-> None]

\* Variant of FieldInitRaises: the flags are not compared.
FieldInitAcceptsAll(mandatory, nullable) == FALSE

\* Field.__init__ raises ValueError for a field both mandatory and nullable.
FieldInitRaises(mandatory, nullable) == mandatory /\ nullable

Field(name, steps, outbound_name, mandatory, nullable, fail_on_error) ==
    [name |-> name, steps |-> steps, outbound_name |-> outbound_name,
     mandatory |-> mandatory, nullable |-> nullable,
     fail_on_error |-> fail_on_error]

\* ------------------------------------------------------------ Field.ingest
MandatoryNullMessage ==
    Message("ERROR", <<"Null value received in mandatory field">>)
NonNullableMessage ==
    Message("ERROR", <<"Null value in non-nullable field after ingestion">>)
ReportedFailure(step) == Message("ERROR", <<step.name, "reported failure">>)
UnexpectedError(step) ==
    Message("INTERNAL_ERROR", <<"Unexpected error in", step.name>>)

\* Variant of Normalize: the str is not stripped, only "" becomes None.
NormalizeEmptyOnly(v) == IF v.t = "str" /\ v.s = <<>> THEN None ELSE v

\* A str is stripped and, when nothing is left, replaced by None; any other
\* value is left alone.
Normalize(v) ==
    IF v.t = "str"
    THEN (IF Strip(v.s) = <<>> THEN None ELSE StrV(Strip(v.s)))
    ELSE v

\* The early return for a null value in a mandatory field.
MandatoryFails(f, v) == v = None /\ f.mandatory

\* The classes `except Exception` catches, among those the steps raise.
ExceptionClasses == {"ValueError", "TypeError", "RuntimeError"}

\* Variant of Catches: `except ValueError` in place of `except Exception`.
CatchesValueErrorOnly(exc) == exc = "ValueError"

Catches(exc) == exc \in ExceptionClasses

\* try: value, success, message = step(value) / except Exception.
\* An exception the handler does not catch leaves ingest (propagated).
CallStep(step, v) ==
    LET Handle(out) ==
            IF out.raised /\ Catches(out.exc)
            THEN [propagated |-> FALSE, value |-> None, success |-> FALSE,
                  message |-> UnexpectedError(step)]
            ELSE [propagated |-> out.raised, value |-> out.value,
                  success |-> out.success, message |-> out.message]
    IN Handle(Apply(step, v))

\* Variant of FailureMessage: the synthesized message is a WARNING.
FailureMessageAsWarning(step, m) ==
    IF m = NoMessage THEN Message("WARNING", ReportedFailure(step).content) ELSE m

\* The message of a failed step, synthesized when the step gave none.
FailureMessage(step, m) == IF m = NoMessage THEN ReportedFailure(step) ELSE m

\* Variant of StopsOnFailure: the status of the message is ignored.
StopsOnFailOnErrorOnly(f, m) == f.fail_on_error

\* Variant of StopsOnFailure: fail_on_error is ignored.
StopsOnInternalErrorOnly(f, m) == m.status = "INTERNAL_ERROR"

\* Whether a failure with message m ends the loop over the steps.
StopsOnFailure(f, m) == f.fail_on_error \/ m.status = "INTERNAL_ERROR"

\* Variant of ContinuingMessage: the message is not downgraded.
ContinuingMessageKept(m) == m

\* The message recorded for a failure the loop continues after.
ContinuingMessage(m) == IF m.status = "ERROR" THEN downgrade(m) ELSE m

\* The loop's state: the threaded value, field_success, messages, and how the
\* iteration ended: "next" (go on), "break", or "raise" (an exception leaves
\* ingest).
LoopState(v, ok, msgs, exit) ==
    [value |-> v, field_success |-> ok, messages |-> msgs, exit |-> exit]

\* Variant of StepBody: a successful step's value is not adopted.
StepBodyKeepsInput(f, step, st) ==
    LET Failed(r, m) ==
            IF StopsOnFailure(f, m)
            THEN LoopState(r.value, FALSE, st.messages \cup {m}, "break")
            ELSE LoopState(r.value, st.field_success,
                           st.messages \cup {ContinuingMessage(m)}, "next")
        Body(r) ==
            IF r.propagated
            THEN LoopState(st.value, st.field_success, st.messages, "raise")
            ELSE IF ~r.success
            THEN Failed(r, FailureMessage(step, r.message))
            ELSE LoopState(st.value, st.field_success,
                           IF r.message = NoMessage THEN st.messages
                           ELSE st.messages \cup {r.message},
                           "next")
    IN Body(CallStep(step, st.value))

\* One iteration of `for step in self._steps`.
StepBody(f, step, st) ==
    LET Failed(r, m) ==
            IF StopsOnFailure(f, m)
            THEN LoopState(r.value, FALSE, st.messages \cup {m}, "break")
            ELSE LoopState(r.value, st.field_success,
                           st.messages \cup {ContinuingMessage(m)}, "next")
        Body(r) ==
            IF r.propagated
            THEN LoopState(st.value, st.field_success, st.messages, "raise")
            ELSE IF ~r.success
            THEN Failed(r, FailureMessage(step, r.message))
            ELSE LoopState(r.value, st.field_success,
                           IF r.message = NoMessage THEN st.messages
                           ELSE st.messages \cup {r.message},
                           "next")
    IN Body(CallStep(step, st.value))

\* Variant of NullCheck: a field that failed already is tested too.
NullCheckAlways(f, st) ==
    IF st.value = None /\ ~f.nullable
    THEN LoopState(st.value, FALSE, st.messages \cup {NonNullableMessage}, st.exit)
    ELSE st

\* Variant of NullCheck: a nullable field is tested too.
NullCheckIgnoresNullable(f, st) ==
    IF st.value = None /\ st.field_success
    THEN LoopState(st.value, FALSE, st.messages \cup {NonNullableMessage}, st.exit)
    ELSE st

\* Variant of NullCheck: the ERROR is added but field_success is left alone.
NullCheckKeepsSuccess(f, st) ==
    IF st.value = None /\ ~f.nullable /\ st.field_success
    THEN [st EXCEPT !.messages = @ \cup {NonNullableMessage}]
    ELSE st

\* The test after the loop: a null value in a non-nullable field that has
\* not failed yet gets one more Error and fails.
NullCheck(f, st) ==
    IF st.value = None /\ ~f.nullable /\ st.field_success
    THEN LoopState(st.value, FALSE, st.messages \cup {NonNullableMessage}, st.exit)
    ELSE st

RECURSIVE RunSteps(_, _, _)
RunSteps(f, i, st) ==
    IF i > Len(f.steps) \/ st.exit # "next" THEN st
    ELSE RunSteps(f, i + 1, StepBody(f, f.steps[i], st))

\* Field.ingest(value) as a function: it raises, or returns
\* (value, success, messages).
Ingest(f, v0) ==
    LET Finish(st) ==
            IF st.exit = "raise"
            THEN [raised |-> TRUE, value |-> None, success |-> FALSE,
                  messages |-> {}]
            ELSE [raised |-> FALSE, value |-> st.value,
                  success |-> st.field_success, messages |-> st.messages]
        Body(v) ==
            IF MandatoryFails(f, v)
            THEN [raised |-> FALSE, value |-> None, success |-> FALSE,
                  messages |-> {MandatoryNullMessage}]
            ELSE Finish(NullCheck(f, RunSteps(f, 1, LoopState(v, TRUE, {}, "next"))))
    IN Body(Normalize(v0))

\* ------------------------------------------------- Schema._apply_to_record
\* A row that is no mapping (a list, as a reader built on csv.reader yields):
\* it has no `get`. It is told from a mapping by its one key, which no mapping
\* has.
ListRow == [c \in {"[0]"} |-> StrV(<<"x">>)]
IsMapping(record) == "[0]" \notin DOMAIN record

\* record.get(key): the value under the key, None when the key is absent.
RecordGet(record, key) == IF key \in DOMAIN record THEN record[key] ELSE None

\* record.get raises AttributeError for a row that is no mapping; the other
\* sources do not look at the row.
SourceRaises(f, record) == f.name.kind = "column" /\ ~IsMapping(record)

\* Variant of InboundValue: record_number is the zero-based index.
InboundValueNumberFromZero(f, record_index, record, fname) ==
    CASE f.name.kind = "column" -> RecordGet(record, f.name.col)
      [] f.name.kind = "constant" -> f.name.value
      [] f.name.col = "file_name" -> fname
      [] OTHER -> IntV(record_index)

\* The inbound value of a field, by the kind of its source.
InboundValue(f, record_index, record, fname) ==
    CASE f.name.kind = "column" -> RecordGet(record, f.name.col)
      [] f.name.kind = "constant" -> f.name.value
      [] f.name.col = "file_name" -> fname
      [] f.name.col = "record_index" -> IntV(record_index)
      [] OTHER -> IntV(record_index + 1)

\* What _apply_to_record returns, or that it raised. The outbound record is
\* the list of its (name, value) items in insertion order.
Applied(index, record, ok, msgs) ==
    [raised |-> FALSE, index |-> index, record |-> record, success |-> ok,
     messages |-> msgs]

\* outbound_record[name] = value: the item is replaced in place when the key
\* is there already, appended otherwise.
SetItem(items, name, v) ==
    IF \E p \in 1..Len(items) : items[p].name = name
    THEN [p \in 1..Len(items) |->
             IF items[p].name = name THEN [name |-> name, value |-> v]
             ELSE items[p]]
    ELSE Append(items, [name |-> name, value |-> v])

\* Variant of FieldBody: once a field has failed, the fields after it are
\* not ingested and get None.
FieldBodySkipsAfterFailure(f, acc, record, fname) ==
    LET Body(got) ==
            IF got.raised THEN [acc EXCEPT !.raised = TRUE]
            ELSE IF ~acc.success
            THEN Applied(acc.index, SetItem(acc.record, f.outbound_name, None),
                         FALSE, acc.messages)
            ELSE Applied(acc.index,
                         SetItem(acc.record, f.outbound_name, got.value),
                         got.success,
                         acc.messages \cup got.messages)
    IN IF SourceRaises(f, record) THEN [acc EXCEPT !.raised = TRUE]
       ELSE Body(Ingest(f, InboundValue(f, acc.index, record, fname)))

\* Variant of FieldBody: record_success is the success of the last field.
FieldBodyLastWins(f, acc, record, fname) ==
    LET Body(got) ==
            IF got.raised THEN [acc EXCEPT !.raised = TRUE]
            ELSE Applied(acc.index,
                         SetItem(acc.record, f.outbound_name, got.value),
                         got.success,
                         acc.messages \cup got.messages)
    IN IF SourceRaises(f, record) THEN [acc EXCEPT !.raised = TRUE]
       ELSE Body(Ingest(f, InboundValue(f, acc.index, record, fname)))

\* One iteration of `for field in self._fields`.
FieldBody(f, acc, record, fname) ==
    LET Body(got) ==
            IF got.raised THEN [acc EXCEPT !.raised = TRUE]
            ELSE Applied(acc.index,
                         SetItem(acc.record, f.outbound_name, got.value),
                         acc.success /\ got.success,
                         acc.messages \cup got.messages)
    IN IF SourceRaises(f, record) THEN [acc EXCEPT !.raised = TRUE]
       ELSE Body(Ingest(f, InboundValue(f, acc.index, record, fname)))

RECURSIVE ApplyFields(_, _, _, _, _)
ApplyFields(fields, j, acc, record, fname) ==
    IF j > Len(fields) \/ acc.raised THEN acc
    ELSE ApplyFields(fields, j + 1, FieldBody(fields[j], acc, record, fname),
                     record, fname)

\* Schema._apply_to_record(indexed_record, file_name)
ApplyToRecord(fields, indexed_record, fname) ==
    ApplyFields(fields, 1, Applied(indexed_record[1], <<>>, TRUE, {}),
                indexed_record[2], fname)

\* ---------------------------------------------------- Schema.process_chunk
\* The dict all_messages after all_messages[index] = msgs.
DictSet(d, index, msgs) ==
    [i \in DOMAIN d \cup {index} |-> IF i = index THEN msgs ELSE d[i]]

EmptyDict == [i \in {} |-> {}]

\* The count of the calls of apply_func, per indexed record: none so far,
\* and after the calls on the first `last` items of a batch.
NeverApplied == [r \in {} |-> 0]

CountCall(count, r) ==
    [q \in DOMAIN count \cup {r} |->
        IF q # r THEN count[q]
        ELSE IF r \in DOMAIN count THEN count[r] + 1 ELSE 1]

RECURSIVE CountCalls(_, _, _)
CountCalls(count, batch, last) ==
    IF last = 0 THEN count
    ELSE CountCall(CountCalls(count, batch, last - 1), batch[last])

\* The items of a task a worker calls the function on: all of them, or those
\* up to the first one the function raises for.
CalledOn(results) ==
    IF \E j \in 1..Len(results) : results[j].raised
    THEN CHOOSE j \in 1..Len(results) :
             /\ results[j].raised
             /\ \A l \in 1..(j - 1) : ~results[l].raised
    ELSE Len(results)

\* Variant of Collect: the messages of a failed record are dropped.
CollectSuccessOnly(acc, r) ==
    [records |-> IF r.success THEN Append(acc.records, r.record) ELSE acc.records,
     all_messages |-> IF r.success THEN DictSet(acc.all_messages, r.index, r.messages)
                      ELSE acc.all_messages]

\* Variant of Collect: an empty set of messages is not stored.
CollectWithMessagesOnly(acc, r) ==
    [records |-> IF r.success THEN Append(acc.records, r.record) ELSE acc.records,
     all_messages |-> IF r.messages # {} THEN DictSet(acc.all_messages, r.index, r.messages)
                      ELSE acc.all_messages]

\* The body of the loop over the mapped results: a successful record is
\* appended, and the messages are stored under the record's index.
Collect(acc, r) ==
    [records |-> IF r.success THEN Append(acc.records, r.record) ELSE acc.records,
     all_messages |-> DictSet(acc.all_messages, r.index, r.messages)]

\* Variant of DerivedProcesses: half the cores, nothing taken off.
DerivedProcessesHalf(cpus) == cpus \div 2

\* n_processes = 0: half the cores, less one when the core count is even.
DerivedProcesses(cpus) ==
    (cpus \div 2) - (IF cpus % 2 = 0 THEN 1 ELSE 0)

\* The tasks Pool.imap makes of an iterable: runs of `size` consecutive items.
RECURSIVE Batches(_, _)
Batches(items, size) ==
    IF items = <<>> THEN <<>>
    ELSE IF Len(items) <= size THEN <<items>>
    ELSE <<SubSeq(items, 1, size)>>
         \o Batches(SubSeq(items, size + 1, Len(items)), size)

\* Variant of ApplyBatch: a worker numbers the records of its batch from 0.
ApplyBatchRenumbered(fields, batch, fname) ==
    [j \in 1..Len(batch) |-> ApplyToRecord(fields, <<j - 1, batch[j][2]>>, fname)]

\* What a worker sends back for a task: the results of its items, in order.
ApplyBatch(fields, batch, fname) ==
    [j \in 1..Len(batch) |-> ApplyToRecord(fields, batch[j], fname)]

\* --------------------------------------------------- Field.ingest, stepwise
VARIABLES
    field,          \* self
    raw,            \* the argument of ingest
    pc,             \* "call", "steps", "nullcheck", "returned", "raised"
    value,          \* the local `value`
    field_success,  \* the local `field_success`
    messages,       \* the local `messages` (the returned set once returned)
    k,              \* the index of the step the loop is at
    calls           \* the step calls made so far: <<index, argument>>

ingestVars == <<field, raw, pc, value, field_success, messages, k, calls>>

\* ------------------------------------------- Schema.process_chunk, stepwise
\* process_chunk is called twice on the same records: first with
\* n_processes = 1, then with the worker count under test.
VARIABLES
    schema,           \* self._fields
    indexed_records,  \* the argument: a sequence of <<index, record>>
    file_name,        \* the argument file_name
    mp_chunk_size,    \* the argument mp_chunk_size
    cpu_count,        \* what multiprocessing.cpu_count() returns
    second_n,         \* n_processes of the second call
    run,              \* which call is under way: 1 or 2
    n_processes,      \* the argument n_processes of the call under way
    cpc,              \* "idle", "iterating", "returned", "raised"
    records,          \* the local `records`
    all_messages,     \* the local `all_messages`
    pool,             \* process_pool: "none", "open", "closed"
    tasks,            \* the tasks imap made: a sequence of batches
    taskq,            \* the numbers of the tasks no worker has taken yet
    workers,          \* per worker: the task it is working on, or 0
    cache,            \* results sent back and not yet consumed, by task
    next_task,        \* the task the imap iterator yields next
    pending,          \* the items of the yielded task not iterated over yet
    finished,         \* the tasks in the order the workers finished them
    next_item,        \* the item the sequential iteration is at
    result,           \* what the call under way returned
    first_result,     \* what the first call returned
    applied           \* per indexed record: how often apply_func was called on it

chunkVars ==
    <<schema, indexed_records, file_name, mp_chunk_size, cpu_count, second_n,
      run, n_processes, cpc, records, all_messages, pool, tasks, taskq,
      workers, cache, next_task, pending, finished, next_item, result,
      first_result, applied>>

\* --------------------------------------- Schema._apply_to_record, stepwise
VARIABLES
    self_fields,       \* self._fields
    indexed_record,    \* the argument: <<record_index, record>>
    record_file_name,  \* the argument file_name
    apc,               \* "call", "fields", "returned", "raised"
    field_at,          \* the position of the loop in self._fields
    outbound_record,   \* the local `outbound_record`
    record_success,    \* the local `record_success`
    record_messages,   \* the local `record_messages`
    ingests            \* per iteration: the value given to ingest, and its result

recordVars ==
    <<self_fields, indexed_record, record_file_name, apc, field_at,
      outbound_record, record_success, record_messages, ingests>>

\* ------------------------------------- Field.__init__ and Schema.__init__
VARIABLES
    field_args,     \* the arguments of the last call Field(...), if any
    built,          \* the Field objects at hand, in order
    ctor,           \* "idle", "schema" (Schema.__init__ at its loop), "done", "raised"
    ctor_error,     \* what the last constructor call raised, or NoError
    schema_fields,  \* self._fields of the Schema under construction
    unique_names,   \* the local `unique_names`
    name_at         \* the position of the loop in self._fields

ctorVars ==
    <<field_args, built, ctor, ctor_error, schema_fields, unique_names, name_at>>

\* ------------------------------------- Message.downgrade, Message.upgrade
VARIABLES
    message0,  \* a Message as constructed
    message,   \* what the calls made on it so far returned
    ops        \* the calls made, in order: "downgrade" or "upgrade"

messageVars == <<message0, message, ops>>

\* ---------------------------------------------------- Schema.process_file
VARIABLES
    stream,        \* the records reader(file) yields, in order
    chunk_size,    \* the argument chunk_size
    consumed,      \* how many records were taken from enumerate(reader(file))
    fpc,           \* "read", "chunk", "write_messages", "closed", "raised"
    parquet,       \* the tables written by parquet_writer, in order
    parquet_open,  \* parquet_writer is not closed
    message_rows,  \* the row batches written by message_writer after the header
    chunks_read    \* the chunks read so far, in order

fileVars ==
    <<stream, chunk_size, consumed, fpc, parquet, parquet_open, message_rows,
      chunks_read>>

\* ---------------------------------------------------------- Constant.value
VARIABLES
    heap,          \* the list objects: heap[n] holds the items of object n
    const_value,   \* Constant._value: an atom or a reference to an object
    original,      \* the value the Constant was constructed with
    copies,        \* what the calls of Constant.value returned, in order
    materialized,  \* the value each call returned, as it was on return
    mutations      \* how many times a returned object was mutated so far

constVars == <<heap, const_value, original, copies, materialized, mutations>>

\* The variables of the specifications other than ingest and process_chunk.
auxVars == <<recordVars, ctorVars, messageVars, fileVars, constVars>>

vars == <<ingestVars, chunkVars, auxVars>>

\* No call of _apply_to_record is under way.
RecordUnused ==
    /\ self_fields = <<>>
    /\ indexed_record = <<0, ListRow>>
    /\ record_file_name = None
    /\ apc = "returned"
    /\ field_at = 1
    /\ outbound_record = <<>>
    /\ record_success = TRUE
    /\ record_messages = {}
    /\ ingests = <<>>

NoError == [exc |-> "none", text |-> ""]

\* No constructor call is under way.
CtorUnused ==
    /\ field_args = <<>>
    /\ built = <<>>
    /\ ctor = "done"
    /\ ctor_error = NoError
    /\ schema_fields = <<>>
    /\ unique_names = {}
    /\ name_at = 1

\* No Message is under study.
MessageUnused ==
    /\ message0 = NoMessage
    /\ message = NoMessage
    /\ ops = <<>>

\* No call of process_file is under way.
FileUnused ==
    /\ stream = <<>>
    /\ chunk_size = 1
    /\ consumed = 0
    /\ fpc = "closed"
    /\ parquet = <<>>
    /\ parquet_open = FALSE
    /\ message_rows = <<>>
    /\ chunks_read = <<>>

\* No Constant is under study.
ConstUnused ==
    /\ heap = <<>>
    /\ const_value = None
    /\ original = None
    /\ copies = <<>>
    /\ materialized = <<>>
    /\ mutations = 0

AuxUnused ==
    RecordUnused /\ CtorUnused /\ MessageUnused /\ FileUnused /\ ConstUnused

NoResult == [table |-> <<>>, all_messages |-> EmptyDict, set |-> FALSE]

\* No call of process_chunk is under way (the ingest specification).
ChunkUnused ==
    /\ schema = <<>>
    /\ indexed_records = <<>>
    /\ file_name = None
    /\ mp_chunk_size = 1
    /\ cpu_count = 1
    /\ second_n = 1
    /\ run = 1
    /\ n_processes = 1
    /\ cpc = "idle"
    /\ records = <<>>
    /\ all_messages = EmptyDict
    /\ pool = "none"
    /\ tasks = <<>>
    /\ taskq = <<>>
    /\ workers = <<>>
    /\ cache = <<>>
    /\ next_task = 1
    /\ pending = <<>>
    /\ finished = <<>>
    /\ next_item = 1
    /\ result = NoResult
    /\ first_result = NoResult
    /\ applied = NeverApplied

RawValues == {None, IntV(0)} \cup {StrV(s) : s \in StringsUpTo(MaxLen)}

\* The fields Field.__init__ accepts, over the step lists of the catalogue.
IngestFields ==
    {f \in [name : {Column("a")}, steps : StepLists, outbound_name : {"a"},
            mandatory : BOOLEAN, nullable : BOOLEAN, fail_on_error : BOOLEAN] :
        ~FieldInitRaises(f.mandatory, f.nullable)}

IngestInit ==
    /\ field \in IngestFields
    /\ raw \in RawValues
    /\ pc = "call"
    /\ value = raw
    /\ field_success = TRUE
    /\ messages = {}
    /\ k = 1
    /\ calls = <<>>
    /\ ChunkUnused
    /\ AuxUnused

\* Entry of ingest: normalization and the mandatory check.
IngestEnter ==
    /\ pc = "call"
    /\ LET v == Normalize(raw) IN
       IF MandatoryFails(field, v)
       THEN /\ value' = None
            /\ field_success' = FALSE
            /\ messages' = {MandatoryNullMessage}
            /\ pc' = "returned"
       ELSE /\ value' = v
            /\ field_success' = TRUE
            /\ messages' = {}
            /\ pc' = IF Len(field.steps) = 0 THEN "nullcheck" ELSE "steps"
    /\ UNCHANGED <<field, raw, k, calls>>
    /\ UNCHANGED <<chunkVars, auxVars>>

\* One iteration of the loop over the steps.
IngestStep ==
    /\ pc = "steps"
    /\ k <= Len(field.steps)
    /\ LET st == StepBody(field, field.steps[k],
                          LoopState(value, field_success, messages, "next")) IN
       /\ value' = st.value
       /\ field_success' = st.field_success
       /\ messages' = st.messages
       /\ pc' = IF st.exit = "raise" THEN "raised"
                ELSE IF st.exit = "break" \/ k = Len(field.steps) THEN "nullcheck"
                ELSE "steps"
    /\ calls' = Append(calls, <<k, value>>)
    /\ k' = k + 1
    /\ UNCHANGED <<field, raw>>
    /\ UNCHANGED <<chunkVars, auxVars>>

\* The test after the loop, and the return.
IngestNullCheck ==
    /\ pc = "nullcheck"
    /\ LET st == NullCheck(field, LoopState(value, field_success, messages, "next")) IN
       /\ value' = st.value
       /\ field_success' = st.field_success
       /\ messages' = st.messages
    /\ pc' = "returned"
    /\ UNCHANGED <<field, raw, k, calls>>
    /\ UNCHANGED <<chunkVars, auxVars>>

IngestNext == IngestEnter \/ IngestStep \/ IngestNullCheck

SpecIngest == IngestInit /\ [][IngestNext]_vars

\* ------------------------------------------- Schema.process_chunk, stepwise
\* Longest chunk.
MaxRecords == 3
\* Largest mp_chunk_size.
MaxMpChunk == 2
\* Largest n_processes.
MaxProcesses == 2

\* Two schemas: a mandatory text column with an optional integer column, and
\* the record index with an integer column that fails on error.
SchemaOptionalInt ==
    << Field(Column("a"), <<>>, "a", TRUE, FALSE, FALSE),
       Field(Column("b"), <<BuiltinParserInt>>, "b", FALSE, TRUE, FALSE) >>
SchemaIndexed ==
    << Field(Special("record_index"), <<>>, "idx", FALSE, FALSE, FALSE),
       Field(Column("b"), <<BuiltinParserInt>>, "b", FALSE, TRUE, TRUE) >>
Schemas == {SchemaOptionalInt, SchemaIndexed}

\* Inbound records over the columns a and b.
Rec(a, b) == [c \in {"a", "b"} |-> IF c = "a" THEN a ELSE b]
RecWithoutB(a) == [c \in {"a"} |-> a]
RecordPool ==
    {Rec(StrV(<<"x">>), StrV(<<"7">>)),
     Rec(StrV(<<" ">>), StrV(<<"7">>)),
     Rec(StrV(<<"x">>), StrV(<<"x">>)),
     RecWithoutB(StrV(<<"x">>))}

\* The first record index of a chunk: the first chunk of a file, or a later one.
Bases == {0, 3}

\* enumerate(records, base)
Enumerate(recs, base) == [j \in 1..Len(recs) |-> <<base + j - 1, recs[j]>>]

Chunks ==
    {Enumerate(recs, base) :
        recs \in UNION {[1..n -> RecordPool] : n \in 0..MaxRecords},
        base \in Bases}

CpuCounts == {1, 2, 4, 6}

\* (n_processes, cpu_count) of the second call; the core count matters only
\* for n_processes = 0.
SecondCalls ==
    {<<n, 1>> : n \in {-1} \cup 2..MaxProcesses} \cup {<<0, c>> : c \in CpuCounts}

IngestUnused ==
    /\ field = Field(Column("a"), <<>>, "a", FALSE, TRUE, FALSE)
    /\ raw = None
    /\ pc = "returned"
    /\ value = None
    /\ field_success = TRUE
    /\ messages = {}
    /\ k = 1
    /\ calls = <<>>

ChunkInit ==
    /\ IngestUnused
    /\ AuxUnused
    /\ schema \in Schemas
    /\ indexed_records \in Chunks
    /\ file_name = StrV(<<"x">>)
    /\ mp_chunk_size \in 1..MaxMpChunk
    /\ \E c \in SecondCalls : second_n = c[1] /\ cpu_count = c[2]
    /\ run = 1
    /\ n_processes = 1
    /\ cpc = "idle"
    /\ records = <<>>
    /\ all_messages = EmptyDict
    /\ pool = "none"
    /\ tasks = <<>>
    /\ taskq = <<>>
    /\ workers = <<>>
    /\ cache = <<>>
    /\ next_task = 1
    /\ pending = <<>>
    /\ finished = <<>>
    /\ next_item = 1
    /\ result = NoResult
    /\ first_result = NoResult
    /\ applied = NeverApplied

chunkArgs ==
    <<schema, indexed_records, file_name, mp_chunk_size, cpu_count, second_n>>

\* The worker count of the pool: n_processes, or the derived count for 0.
PoolSize == IF n_processes = 0 THEN DerivedProcesses(cpu_count) ELSE n_processes

\* Entry of process_chunk, up to the start of the iteration: no pool for
\* n_processes = 1; otherwise the argument is checked, the pool is created and
\* imap queues its tasks.
ProcessChunkEnter ==
    /\ cpc = "idle"
    /\ records' = <<>>
    /\ all_messages' = EmptyDict
    /\ IF n_processes = 1
       THEN /\ cpc' = "iterating"
            /\ UNCHANGED <<pool, tasks, taskq, workers>>
       ELSE IF n_processes < 0 \/ PoolSize < 1
       THEN \* ValueError, from process_chunk or from Pool(n)
            /\ cpc' = "raised"
            /\ UNCHANGED <<pool, tasks, taskq, workers>>
       ELSE IF mp_chunk_size < 1
       THEN \* ValueError from imap, inside the try: the pool is closed
            /\ cpc' = "raised"
            /\ pool' = "closed"
            /\ workers' = [w \in 1..PoolSize |-> 0]
            /\ UNCHANGED <<tasks, taskq>>
       ELSE /\ cpc' = "iterating"
            /\ pool' = "open"
            /\ workers' = [w \in 1..PoolSize |-> 0]
            /\ tasks' = Batches(indexed_records, mp_chunk_size)
            /\ taskq' = [j \in 1..Len(Batches(indexed_records, mp_chunk_size)) |-> j]
    /\ UNCHANGED <<chunkArgs, run, n_processes, cache, next_task, pending,
                   finished, next_item, result, first_result, applied>>
    /\ UNCHANGED <<ingestVars, auxVars>>

\* n_processes = 1: one iteration over map(apply_func, indexed_records).
SequentialIterate ==
    /\ cpc = "iterating"
    /\ pool = "none"
    /\ next_item <= Len(indexed_records)
    /\ LET Store(acc) ==
               /\ records' = acc.records
               /\ all_messages' = acc.all_messages
               /\ next_item' = next_item + 1
               /\ UNCHANGED cpc
           Body(r) ==
               IF r.raised
               THEN /\ cpc' = "raised"
                    /\ UNCHANGED <<records, all_messages, next_item>>
               ELSE Store(Collect([records |-> records,
                                   all_messages |-> all_messages], r))
       IN Body(ApplyToRecord(schema, indexed_records[next_item], file_name))
    /\ applied' = CountCall(applied, indexed_records[next_item])
    /\ UNCHANGED <<chunkArgs, run, n_processes, pool, tasks, taskq, workers,
                   cache, next_task, pending, finished, result, first_result>>
    /\ UNCHANGED <<ingestVars, auxVars>>

\* An idle worker takes the oldest task not taken yet.
WorkerTake(w) ==
    /\ workers[w] = 0
    /\ taskq # <<>>
    /\ workers' = [workers EXCEPT ![w] = Head(taskq)]
    /\ taskq' = Tail(taskq)
    /\ UNCHANGED <<chunkArgs, run, n_processes, cpc, records, all_messages, pool,
                   tasks, cache, next_task, pending, finished, next_item, result,
                   first_result, applied>>
    /\ UNCHANGED <<ingestVars, auxVars>>

\* A worker finishes its task and sends the results back.
WorkerFinish(w) ==
    /\ workers[w] # 0
    /\ cache' = [t \in DOMAIN cache \cup {workers[w]} |->
                    IF t = workers[w]
                    THEN ApplyBatch(schema, tasks[workers[w]], file_name)
                    ELSE cache[t]]
    /\ workers' = [workers EXCEPT ![w] = 0]
    /\ finished' = Append(finished, workers[w])
    /\ applied' = CountCalls(applied, tasks[workers[w]],
                             CalledOn(ApplyBatch(schema, tasks[workers[w]],
                                                 file_name)))
    /\ UNCHANGED <<chunkArgs, run, n_processes, cpc, records, all_messages, pool,
                   tasks, taskq, next_task, pending, next_item, result,
                   first_result>>
    /\ UNCHANGED <<ingestVars, auxVars>>

\* Variant of TaskRaises: the exception of a task is dropped.
TaskNeverRaises(batch) == FALSE

\* A task whose function raised for one of its items comes back as that
\* exception, which the iterator raises in place of the task's results.
TaskRaises(batch) == \E j \in 1..Len(batch) : batch[j].raised

\* Variant of Yieldable: imap_unordered, any task whose results are back.
YieldableUnordered(done, nxt) == DOMAIN done

\* The tasks the imap iterator can yield now: the next one in task order, once
\* its results are back.
Yieldable(done, nxt) == {nxt} \cap DOMAIN done

\* n_processes # 1: one iteration over the imap iterator, which yields the
\* tasks' results in task order and each task's items in order, and waits for
\* the task it is at.
ParallelIterate ==
    /\ cpc = "iterating"
    /\ pool = "open"
    /\ LET Store(acc) ==
               /\ records' = acc.records
               /\ all_messages' = acc.all_messages
           Consume(r) ==
               Store(Collect([records |-> records, all_messages |-> all_messages], r))
           Yield(t, batch) ==
               IF TaskRaises(batch)
               THEN \* the task's exception is re-raised; finally closes the pool
                    /\ cpc' = "raised"
                    /\ pool' = "closed"
                    /\ UNCHANGED <<records, all_messages, next_task, pending, cache>>
               ELSE /\ Consume(Head(batch))
                    /\ pending' = Tail(batch)
                    /\ cache' = [u \in DOMAIN cache \ {t} |-> cache[u]]
                    /\ next_task' = next_task + 1
                    /\ UNCHANGED <<cpc, pool>>
       IN IF pending # <<>>
          THEN /\ Consume(Head(pending))
               /\ pending' = Tail(pending)
               /\ UNCHANGED <<cpc, pool, cache, next_task>>
          ELSE \E t \in Yieldable(cache, next_task) : Yield(t, cache[t])
    /\ UNCHANGED <<chunkArgs, run, n_processes, tasks, taskq, workers, finished,
                   next_item, result, first_result, applied>>
    /\ UNCHANGED <<ingestVars, auxVars>>

\* The table pa.Table.from_pylist builds: the records as rows, in list order.
Table(rows) == rows

\* Variant of ProcessChunkReturn: the pool is left as it is.
ProcessChunkReturnLeavesPool ==
    /\ cpc = "iterating"
    /\ IF pool = "none"
       THEN next_item > Len(indexed_records)
       ELSE next_task > Len(tasks) /\ pending = <<>>
    /\ result' = [table |-> Table(records), all_messages |-> all_messages,
                  set |-> TRUE]
    /\ cpc' = "returned"
    /\ UNCHANGED <<chunkArgs, run, n_processes, records, all_messages, pool,
                   tasks, taskq, workers, cache, next_task, pending, finished,
                   next_item, first_result, applied>>
    /\ UNCHANGED <<ingestVars, auxVars>>

\* The iteration is exhausted: the pool (if any) is closed and the table and
\* the messages are returned.
ProcessChunkReturn ==
    /\ cpc = "iterating"
    /\ IF pool = "none"
       THEN next_item > Len(indexed_records)
       ELSE next_task > Len(tasks) /\ pending = <<>>
    /\ pool' = IF pool = "none" THEN "none" ELSE "closed"
    /\ result' = [table |-> Table(records), all_messages |-> all_messages,
                  set |-> TRUE]
    /\ cpc' = "returned"
    /\ UNCHANGED <<chunkArgs, run, n_processes, records, all_messages, tasks,
                   taskq, workers, cache, next_task, pending, finished, next_item,
                   first_result, applied>>
    /\ UNCHANGED <<ingestVars, auxVars>>

\* The caller keeps the first call's result and calls process_chunk again on
\* the same records with n_processes = second_n.
SecondCall ==
    /\ run = 1
    /\ cpc = "returned"
    /\ first_result' = result
    /\ run' = 2
    /\ n_processes' = second_n
    /\ cpc' = "idle"
    /\ records' = <<>>
    /\ all_messages' = EmptyDict
    /\ next_task' = 1
    /\ next_item' = 1
    /\ result' = NoResult
    /\ UNCHANGED <<chunkArgs, pool, tasks, taskq, workers, cache, pending,
                   finished, applied>>
    /\ UNCHANGED <<ingestVars, auxVars>>

ChunkNext ==
    \/ ProcessChunkEnter
    \/ SequentialIterate
    \/ \E w \in DOMAIN workers : WorkerTake(w)
    \/ \E w \in DOMAIN workers : WorkerFinish(w)
    \/ ParallelIterate
    \/ ProcessChunkReturn
    \/ SecondCall

SpecChunk == ChunkInit /\ [][ChunkNext]_vars

\* --------------------------------------- Schema._apply_to_record, stepwise
\* Longest schema.
MaxFields == 2

\* Fields of every kind of source, each with its own outbound name.
FieldA == Field(Column("a"), <<>>, "a", TRUE, FALSE, FALSE)
FieldB == Field(Column("b"), <<BuiltinParserInt>>, "b", FALSE, TRUE, FALSE)
FieldBStrict == Field(Column("b"), <<BuiltinParserInt>>, "b_strict", FALSE, TRUE, TRUE)
FieldBAgain == Field(Column("b"), <<BuiltinParserInt>>, "b_again", FALSE, TRUE, FALSE)
FieldMissing == Field(Column("c"), <<>>, "c", FALSE, FALSE, FALSE)
FieldConstant ==
    Field(Constant(StrV(<<"7">>)), <<BuiltinParserInt>>, "k", FALSE, FALSE, FALSE)
FieldFileName == Field(Special("file_name"), <<>>, "file", FALSE, TRUE, FALSE)
FieldIndex == Field(Special("record_index"), <<>>, "idx", FALSE, FALSE, FALSE)
FieldNumber == Field(Special("record_number"), <<>>, "num", FALSE, FALSE, FALSE)

FieldPool ==
    {FieldA, FieldB, FieldBStrict, FieldMissing, FieldConstant, FieldFileName,
     FieldIndex, FieldNumber}

\* The schemas Schema.__init__ accepts over the pool: no outbound name twice.
RecordSchemas ==
    {fs \in UNION {[1..n -> FieldPool] : n \in 0..MaxFields} :
        \A p, q \in 1..Len(fs) :
            fs[p].outbound_name = fs[q].outbound_name => p = q}

RecordInit ==
    /\ IngestUnused
    /\ ChunkUnused
    /\ CtorUnused
    /\ MessageUnused
    /\ FileUnused
    /\ ConstUnused
    /\ self_fields \in RecordSchemas
    /\ indexed_record \in Bases \X (RecordPool \cup {ListRow})
    /\ record_file_name \in {None, StrV(<<"x">>)}
    /\ apc = "call"
    /\ field_at = 1
    /\ outbound_record = <<>>
    /\ record_success = TRUE
    /\ record_messages = {}
    /\ ingests = <<>>

\* Entry of _apply_to_record: the locals before the loop.
ApplyToRecordEnter ==
    /\ apc = "call"
    /\ outbound_record' = <<>>
    /\ record_success' = TRUE
    /\ record_messages' = {}
    /\ field_at' = 1
    /\ apc' = "fields"
    /\ UNCHANGED <<self_fields, indexed_record, record_file_name, ingests>>
    /\ UNCHANGED <<ingestVars, chunkVars, ctorVars, messageVars, fileVars,
                   constVars>>

\* One iteration of the loop over the fields.
ApplyToRecordField ==
    /\ apc = "fields"
    /\ field_at <= Len(self_fields)
    /\ LET Store(acc) ==
               IF acc.raised
               THEN /\ apc' = "raised"
                    /\ UNCHANGED <<outbound_record, record_success,
                                   record_messages, ingests>>
               ELSE /\ outbound_record' = acc.record
                    /\ record_success' = acc.success
                    /\ record_messages' = acc.messages
                    /\ UNCHANGED apc
           Note(f, v) ==
               ingests' = Append(ingests, [inbound |-> v, result |-> Ingest(f, v)])
           Body(f, acc) ==
               /\ Store(FieldBody(f, acc, indexed_record[2], record_file_name))
               /\ SourceRaises(f, indexed_record[2])
                  \/ Note(f, InboundValue(f, indexed_record[1], indexed_record[2],
                                          record_file_name))
       IN Body(self_fields[field_at],
               Applied(indexed_record[1], outbound_record, record_success,
                       record_messages))
    /\ field_at' = field_at + 1
    /\ UNCHANGED <<self_fields, indexed_record, record_file_name>>
    /\ UNCHANGED <<ingestVars, chunkVars, ctorVars, messageVars, fileVars,
                   constVars>>

\* The loop is over: (record_index, outbound_record, record_success,
\* record_messages) is returned.
ApplyToRecordReturn ==
    /\ apc = "fields"
    /\ field_at > Len(self_fields)
    /\ apc' = "returned"
    /\ UNCHANGED <<self_fields, indexed_record, record_file_name, field_at,
                   outbound_record, record_success, record_messages, ingests>>
    /\ UNCHANGED <<ingestVars, chunkVars, ctorVars, messageVars, fileVars,
                   constVars>>

RecordNext == ApplyToRecordEnter \/ ApplyToRecordField \/ ApplyToRecordReturn

SpecRecord == RecordInit /\ [][RecordNext]_vars

\* ------------------------------------- Field.__init__ and Schema.__init__
\* The argument `steps` of Field: None, one step, a list, or something else.
NoSteps == [kind |-> "none", items |-> <<>>]
OneStep(step) == [kind |-> "step", items |-> <<step>>]
StepList(items) == [kind |-> "list", items |-> items]
NotSteps == [kind |-> "other", items |-> <<>>]

\* An object that is no AbstractStep, and a `name` that is an int.
NotAStep ==
    [kind |-> "object", name |-> "object()", raises |-> FALSE, keep |-> FALSE,
     success |-> FALSE, status |-> "NONE"]
IsStep(x) == x.kind \in {"stub", "BuiltinParser", "Truncate"}
IntName == [kind |-> "int", col |-> "", value |-> IntV(0)]

\* What a constructor call gives: the object, or the exception raised.
Constructed(obj) == [raised |-> FALSE, error |-> NoError, object |-> obj]
CtorRaised(exc, text) ==
    [raised |-> TRUE, error |-> [exc |-> exc, text |-> text],
     object |-> Field(Column(""), <<>>, "", FALSE, FALSE, FALSE)]

BothMandatoryAndNullable ==
    [exc |-> "ValueError", text |-> "A field cannot be both mandatory and nullable"]
DuplicateOutboundName ==
    [exc |-> "ValueError", text |-> "Multiple fields with outbound name"]

\* Field.__init__(name, steps, outbound_name=..., mandatory=..., nullable=...,
\* fail_on_error=...), with parquet_type left at its default. An empty
\* outbound_name counts as not given.
FieldNew(a) ==
    IF a.name.kind \notin {"column", "constant", "special"}
    THEN CtorRaised("TypeError", "name must be str, Constant or Special")
    ELSE IF a.outbound_name = "" /\ a.name.kind # "column"
    THEN CtorRaised("ValueError",
                    "If name is not a string, outbound_name must be provided")
    ELSE IF FieldInitRaises(a.mandatory, a.nullable)
    THEN CtorRaised(BothMandatoryAndNullable.exc, BothMandatoryAndNullable.text)
    ELSE IF a.steps.kind = "other"
    THEN CtorRaised("TypeError", "steps must be a step, a list of steps, or None")
    ELSE IF a.steps.kind = "list"
            /\ \E p \in 1..Len(a.steps.items) : ~IsStep(a.steps.items[p])
    THEN CtorRaised("TypeError", "steps contains non-step elements")
    ELSE Constructed(Field(a.name, a.steps.items,
                           IF a.outbound_name # "" THEN a.outbound_name
                           ELSE a.name.col,
                           a.mandatory, a.nullable, a.fail_on_error))

\* The arguments Field is called with.
FieldArgs ==
    [name : {Column("a"), Constant(StrV(<<"7">>)), Special("record_index"), IntName},
     steps : {NoSteps, OneStep(BuiltinParserInt), StepList(<<BuiltinParserInt>>),
              StepList(<<BuiltinParserInt, NotAStep>>), NotSteps},
     outbound_name : {"", "o"},
     mandatory : BOOLEAN, nullable : BOOLEAN, fail_on_error : BOOLEAN]

FieldInitInit ==
    /\ IngestUnused
    /\ ChunkUnused
    /\ RecordUnused
    /\ MessageUnused
    /\ FileUnused
    /\ ConstUnused
    /\ field_args = <<>>
    /\ built = <<>>
    /\ ctor = "idle"
    /\ ctor_error = NoError
    /\ schema_fields = <<>>
    /\ unique_names = {}
    /\ name_at = 1

\* One call Field(...): it gives the object, or raises.
FieldInitCall(a) ==
    /\ ctor = "idle"
    /\ field_args' = <<a>>
    /\ LET Body(r) ==
               /\ ctor_error' = r.error
               /\ built' = IF r.raised THEN <<>> ELSE <<r.object>>
       IN Body(FieldNew(a))
    /\ UNCHANGED <<ctor, schema_fields, unique_names, name_at>>
    /\ UNCHANGED <<ingestVars, chunkVars, recordVars, messageVars, fileVars,
                   constVars>>

FieldInit == \E a \in FieldArgs : FieldInitCall(a)

SpecFieldInit == FieldInitInit /\ [][FieldInit]_vars

\* A field that takes the outbound name of FieldA.
FieldAlias == Field(Column("b"), <<>>, "a", FALSE, TRUE, FALSE)

\* The argument lists of Schema: constructed fields, in any order, with
\* repeats.
SchemaArgs == UNION {[1..n -> FieldPool \cup {FieldAlias}] : n \in 0..MaxFields}

SchemaInitInit ==
    /\ IngestUnused
    /\ ChunkUnused
    /\ RecordUnused
    /\ MessageUnused
    /\ FileUnused
    /\ ConstUnused
    /\ field_args = <<>>
    /\ built \in SchemaArgs
    /\ ctor = "idle"
    /\ ctor_error = NoError
    /\ schema_fields = <<>>
    /\ unique_names = {}
    /\ name_at = 1

\* Schema(*fields) on the fields at hand, up to its loop.
SchemaInitEnter ==
    /\ ctor = "idle"
    /\ schema_fields' = built
    /\ unique_names' = {}
    /\ name_at' = 1
    /\ ctor' = "schema"
    /\ ctor_error' = NoError
    /\ UNCHANGED <<field_args, built>>
    /\ UNCHANGED <<ingestVars, chunkVars, recordVars, messageVars, fileVars,
                   constVars>>

\* Variant of NameTaken: no name counts as taken.
NameNeverTaken(field_name, names) == FALSE

\* `field_name in unique_names`
NameTaken(field_name, names) == field_name \in names

\* One iteration of the loop over the fields: a name seen before raises.
SchemaInitField ==
    /\ ctor = "schema"
    /\ name_at <= Len(schema_fields)
    /\ IF NameTaken(schema_fields[name_at].outbound_name, unique_names)
       THEN /\ ctor' = "raised"
            /\ ctor_error' = DuplicateOutboundName
            /\ UNCHANGED <<unique_names, name_at>>
       ELSE /\ unique_names' = unique_names \cup {schema_fields[name_at].outbound_name}
            /\ name_at' = name_at + 1
            /\ UNCHANGED <<ctor, ctor_error>>
    /\ UNCHANGED <<field_args, built, schema_fields>>
    /\ UNCHANGED <<ingestVars, chunkVars, recordVars, messageVars, fileVars,
                   constVars>>

\* The loop is over: the Schema is constructed.
SchemaInitDone ==
    /\ ctor = "schema"
    /\ name_at > Len(schema_fields)
    /\ ctor' = "done"
    /\ UNCHANGED <<field_args, built, ctor_error, schema_fields, unique_names,
                   name_at>>
    /\ UNCHANGED <<ingestVars, chunkVars, recordVars, messageVars, fileVars,
                   constVars>>

SchemaInitNext == SchemaInitEnter \/ SchemaInitField \/ SchemaInitDone

SpecSchemaInit == SchemaInitInit /\ [][SchemaInitNext]_vars

\* ------------------------------------- Message.downgrade, Message.upgrade
\* Most calls made on one Message.
MaxOps == 2

\* Texts of messages: those of the engine, and the empty text.
MessageContents ==
    {<<>>, MandatoryNullMessage.content, NonNullableMessage.content,
     ReportedFailure(StepFailSilent).content, UnexpectedError(StepRaise).content}

\* Message.__post_init__ accepts a status of the four, and no other.
MessageInitRaises(status) == status \notin Statuses

MessageInit ==
    /\ IngestUnused
    /\ ChunkUnused
    /\ RecordUnused
    /\ CtorUnused
    /\ FileUnused
    /\ ConstUnused
    /\ message0 \in {Message(st, c) : st \in Statuses, c \in MessageContents}
    /\ message = message0
    /\ ops = <<>>

\* message = message.downgrade()
MessageDowngrade ==
    /\ Len(ops) < MaxOps
    /\ message' = downgrade(message)
    /\ ops' = Append(ops, "downgrade")
    /\ UNCHANGED message0
    /\ UNCHANGED <<ingestVars, chunkVars, recordVars, ctorVars, fileVars,
                   constVars>>

\* message = message.upgrade()
MessageUpgrade ==
    /\ Len(ops) < MaxOps
    /\ message' = upgrade(message)
    /\ ops' = Append(ops, "upgrade")
    /\ UNCHANGED message0
    /\ UNCHANGED <<ingestVars, chunkVars, recordVars, ctorVars, fileVars,
                   constVars>>

MessageNext == MessageDowngrade \/ MessageUpgrade

SpecMessage == MessageInit /\ [][MessageNext]_vars

\* ---------------------------------------------------- Schema.process_file
\* Longest stream of records.
MaxStream == 3
\* Largest chunk_size.
MaxChunkSize == 3

\* The record index and number with an integer column that fails on error.
SchemaNumbered ==
    << FieldIndex, FieldNumber, FieldBStrict >>
\* The integer column read into two outbound columns.
SchemaTwice ==
    << FieldB, FieldBAgain >>
FileSchemas == {SchemaOptionalInt, SchemaNumbered, SchemaTwice}

\* What the reader yields: a row with both values valid, one with an empty
\* column a, one with a non-numeric column b, and a row that is no mapping.
RowValid == Rec(StrV(<<"x">>), StrV(<<"7">>))
RowEmptyA == Rec(StrV(<<>>), StrV(<<"7">>))
RowBadB == Rec(StrV(<<"x">>), StrV(<<"x">>))
FileRecordPool == {RowValid, RowEmptyA, RowBadB, ListRow}

Streams == UNION {[1..n -> FileRecordPool] : n \in 0..MaxStream}

\* Variant of Islice: one record more than chunk_size is taken.
IsliceOneMore(recs, taken, size) ==
    LET last == IF taken + size + 1 < Len(recs) THEN taken + size + 1
                ELSE Len(recs) IN
    SubSeq(Enumerate(recs, 0), taken + 1, last)

\* Variant of Islice: each chunk is enumerated anew, from 0.
IsliceRenumbered(recs, taken, size) ==
    LET last == IF taken + size < Len(recs) THEN taken + size ELSE Len(recs) IN
    Enumerate(SubSeq(recs, taken + 1, last), 0)

\* list(itertools.islice(indexed_records, chunk_size)) on
\* indexed_records = enumerate(reader(file)), `taken` items of which are gone.
Islice(recs, taken, size) ==
    LET last == IF taken + size < Len(recs) THEN taken + size ELSE Len(recs) IN
    SubSeq(Enumerate(recs, 0), taken + 1, last)

\* Variant of WriteTable: the table is kept back, not written.
WriteTableLater(file, table) == file

\* parquet_writer.write_table(table)
WriteTable(file, table) == Append(file, table)

\* Variant of MessageCsvRows: a message gets one row for every field of the
\* schema that produced it.
MessageCsvRowsPerField(msgs) ==
    LET appended == UNION {{<<i, m>> : m \in msgs[i]} : i \in DOMAIN msgs}
        Row(a) == <<a[1], a[2].status, a[2].content>>
        RecordAt(i) ==
            (CHOOSE j \in 1..Len(indexed_records) : indexed_records[j][1] = i)
        Producers(a) ==
            {f \in 1..Len(schema) :
                a[2] \in Ingest(schema[f],
                               InboundValue(schema[f], a[1],
                                            indexed_records[RecordAt(a[1])][2],
                                            file_name)).messages}
        Copies(r) == {<<a, f>> \in appended \X (1..Len(schema)) :
                         Row(a) = r /\ f \in Producers(a)}
    IN [r \in {Row(a) : a \in appended} |-> Cardinality(Copies(r))]

\* message_csv_rows: one row [record_index, status, content] is appended for
\* every message of every item of all_messages. The rows of one record come
\* in the iteration order of a set, which is not fixed: the batch is kept as
\* the bag of its rows, a row as often as it was appended.
MessageCsvRows(msgs) ==
    LET appended == UNION {{<<i, m>> : m \in msgs[i]} : i \in DOMAIN msgs}
        Row(a) == <<a[1], a[2].status, a[2].content>>
    IN [r \in {Row(a) : a \in appended} |->
           Cardinality({a \in appended : Row(a) = r})]

\* The state when the while loop is entered: the files are open, the header
\* row of the messages is written, and no record has been read.
FileInit ==
    /\ IngestUnused
    /\ RecordUnused
    /\ CtorUnused
    /\ MessageUnused
    /\ ConstUnused
    /\ stream \in Streams
    /\ chunk_size \in 1..MaxChunkSize
    /\ consumed = 0
    /\ fpc = "read"
    /\ parquet = <<>>
    /\ parquet_open = TRUE
    /\ message_rows = <<>>
    /\ chunks_read = <<>>
    /\ schema \in FileSchemas
    /\ indexed_records = <<>>
    /\ file_name = StrV(<<"x">>)
    /\ mp_chunk_size \in 1..MaxMpChunk
    /\ cpu_count = 1
    /\ second_n = 1
    /\ run = 1
    /\ n_processes \in 1..MaxProcesses
    /\ cpc = "returned"
    /\ records = <<>>
    /\ all_messages = EmptyDict
    /\ pool = "none"
    /\ tasks = <<>>
    /\ taskq = <<>>
    /\ workers = <<>>
    /\ cache = <<>>
    /\ next_task = 1
    /\ pending = <<>>
    /\ finished = <<>>
    /\ next_item = 1
    /\ result = NoResult
    /\ first_result = NoResult
    /\ applied = NeverApplied

\* The top of the while loop: the next chunk is read; an empty chunk closes
\* the parquet writer and ends the loop, any other is given to process_chunk.
FileReadChunk ==
    /\ fpc = "read"
    /\ LET Body(chunk) ==
               IF chunk = <<>>
               THEN /\ parquet_open' = FALSE
                    /\ fpc' = "closed"
                    /\ UNCHANGED <<consumed, chunks_read>>
                    /\ UNCHANGED <<indexed_records, cpc, records, all_messages,
                                   pool, tasks, taskq, workers, cache, next_task,
                                   pending, finished, next_item, result>>
               ELSE /\ consumed' = consumed + Len(chunk)
                    /\ chunks_read' = Append(chunks_read, chunk)
                    /\ fpc' = "chunk"
                    /\ indexed_records' = chunk
                    /\ cpc' = "idle"
                    /\ records' = <<>>
                    /\ all_messages' = EmptyDict
                    /\ pool' = "none"
                    /\ tasks' = <<>>
                    /\ taskq' = <<>>
                    /\ workers' = <<>>
                    /\ cache' = <<>>
                    /\ next_task' = 1
                    /\ pending' = <<>>
                    /\ finished' = <<>>
                    /\ next_item' = 1
                    /\ result' = NoResult
                    /\ UNCHANGED parquet_open
       IN Body(Islice(stream, consumed, chunk_size))
    /\ UNCHANGED <<stream, chunk_size, parquet, message_rows>>
    /\ UNCHANGED <<schema, file_name, mp_chunk_size, cpu_count, second_n, run,
                   n_processes, first_result, applied>>
    /\ UNCHANGED <<ingestVars, recordVars, ctorVars, messageVars, constVars>>

\* process_chunk returned: the table is written.
FileWriteTable ==
    /\ fpc = "chunk"
    /\ cpc = "returned"
    /\ parquet' = WriteTable(parquet, result.table)
    /\ fpc' = "write_messages"
    /\ UNCHANGED <<stream, chunk_size, consumed, parquet_open, message_rows,
                   chunks_read>>
    /\ UNCHANGED <<ingestVars, chunkVars, recordVars, ctorVars, messageVars,
                   constVars>>

\* The rows of the chunk's messages are built and written.
FileWriteMessages ==
    /\ fpc = "write_messages"
    /\ message_rows' = Append(message_rows, MessageCsvRows(result.all_messages))
    /\ fpc' = "read"
    /\ UNCHANGED <<stream, chunk_size, consumed, parquet, parquet_open,
                   chunks_read>>
    /\ UNCHANGED <<ingestVars, chunkVars, recordVars, ctorVars, messageVars,
                   constVars>>

\* process_chunk raised: the exception leaves process_file (the ExitStack
\* closes the input and the messages file; the parquet writer is not closed).
FileRaise ==
    /\ fpc = "chunk"
    /\ cpc = "raised"
    /\ fpc' = "raised"
    /\ UNCHANGED <<stream, chunk_size, consumed, parquet, parquet_open,
                   message_rows, chunks_read>>
    /\ UNCHANGED <<ingestVars, chunkVars, recordVars, ctorVars, messageVars,
                   constVars>>

FileNext ==
    \/ FileReadChunk
    \/ ProcessChunkEnter
    \/ SequentialIterate
    \/ \E w \in DOMAIN workers : WorkerTake(w)
    \/ \E w \in DOMAIN workers : WorkerFinish(w)
    \/ ParallelIterate
    \/ ProcessChunkReturn
    \/ FileWriteTable
    \/ FileWriteMessages
    \/ FileRaise

SpecFile == FileInit /\ [][FileNext]_vars

\* A step of process_file or of a worker can be taken: ENABLED <<FileNext>>_vars
\* written out, one disjunct per group of actions (reading and writing, entry
\* and exit of process_chunk, the iteration, the workers).
FileCanStep ==
    \/ fpc = "read"
    \/ fpc = "write_messages"
    \/ fpc = "chunk" /\ cpc \in {"idle", "returned", "raised"}
    \/ /\ cpc = "iterating"
       /\ IF pool = "none" THEN TRUE
          ELSE \/ pending # <<>>
               \/ next_task \in DOMAIN cache
               \/ next_task > Len(tasks)
    \/ \E w \in DOMAIN workers : workers[w] # 0 \/ taskq # <<>>

\* process_file on the schema of a mandatory and an optional column, with
\* the main process and the workers running on: a step that can be taken is
\* taken in the end. This is WF_vars(FileNext), weak
\* fairness of the main process and the worker processes, which the
\* operating system schedules as long as they can run; its ENABLED is
\* written out as FileCanStep.
FileFairInit == FileInit /\ schema = SchemaOptionalInt

SpecFileFair ==
    /\ FileFairInit
    /\ [][FileNext]_vars
    /\ ([]<>(~FileCanStep) \/ []<><<FileNext>>_vars)

\* --------------------------------- Schema.process_chunk, n_processes = 0
\* Largest core count.
MaxCpus == 16

\* One call process_chunk(..., n_processes=0) on a chunk of one record, on a
\* machine of any core count.
AutoInit ==
    /\ IngestUnused
    /\ AuxUnused
    /\ schema = SchemaOptionalInt
    /\ indexed_records = Enumerate(<<RowValid>>, 0)
    /\ file_name = StrV(<<"x">>)
    /\ mp_chunk_size = 1
    /\ cpu_count \in 1..MaxCpus
    /\ second_n = 0
    /\ run = 2
    /\ n_processes = 0
    /\ cpc = "idle"
    /\ records = <<>>
    /\ all_messages = EmptyDict
    /\ pool = "none"
    /\ tasks = <<>>
    /\ taskq = <<>>
    /\ workers = <<>>
    /\ cache = <<>>
    /\ next_task = 1
    /\ pending = <<>>
    /\ finished = <<>>
    /\ next_item = 1
    /\ result = NoResult
    /\ first_result = NoResult
    /\ applied = NeverApplied

AutoNext ==
    \/ ProcessChunkEnter
    \/ \E w \in DOMAIN workers : WorkerTake(w)
    \/ \E w \in DOMAIN workers : WorkerFinish(w)
    \/ ParallelIterate
    \/ ProcessChunkReturn

SpecAuto == AutoInit /\ [][AutoNext]_vars

\* ------------------------------- Schema.process_chunk, one call of any kind
\* One call of process_chunk on a chunk of valid, failing and non-mapping
\* rows, with n_processes negative, 1, larger, or 0 on 2 and on 4 cores.
PoolInit ==
    /\ IngestUnused
    /\ AuxUnused
    /\ schema = SchemaOptionalInt
    /\ \E recs \in UNION {[1..n -> FileRecordPool] : n \in 0..MaxRecords} :
          indexed_records = Enumerate(recs, 0)
    /\ file_name = StrV(<<"x">>)
    /\ mp_chunk_size \in 1..MaxMpChunk
    /\ \/ n_processes \in {-1} \cup 1..MaxProcesses /\ cpu_count = 1
       \/ n_processes = 0 /\ cpu_count \in {2, 4}
    /\ second_n = n_processes
    /\ run = 2
    /\ cpc = "idle"
    /\ records = <<>>
    /\ all_messages = EmptyDict
    /\ pool = "none"
    /\ tasks = <<>>
    /\ taskq = <<>>
    /\ workers = <<>>
    /\ cache = <<>>
    /\ next_task = 1
    /\ pending = <<>>
    /\ finished = <<>>
    /\ next_item = 1
    /\ result = NoResult
    /\ first_result = NoResult
    /\ applied = NeverApplied

PoolNext ==
    \/ ProcessChunkEnter
    \/ SequentialIterate
    \/ \E w \in DOMAIN workers : WorkerTake(w)
    \/ \E w \in DOMAIN workers : WorkerFinish(w)
    \/ ParallelIterate
    \/ ProcessChunkReturn

SpecPool == PoolInit /\ [][PoolNext]_vars

\* ---------------------------------------------------------- Constant.value
\* Most calls of Constant.value, and most mutations of what they returned.
MaxCopies == 2
MaxMutations == 2

\* A value is an atom (a str) or a reference to a list object on the heap;
\* the items of a list are values.
Atoms == {"x", "y"}
Atom(a) == [t |-> "atom", a |-> a, addr |-> 0]
Ref(n) == [t |-> "ref", a |-> "", addr |-> n]

\* What a value is worth: the atom, or the list of what its items are worth.
RECURSIVE Deep(_, _)
Deep(h, v) ==
    IF v.t = "atom" THEN [t |-> "atom", a |-> v.a, items |-> <<>>]
    ELSE [t |-> "list", a |-> "",
          items |-> [e \in 1..Len(h[v.addr]) |-> Deep(h, h[v.addr][e])]]

\* The objects a value reaches.
RECURSIVE Reach(_, _)
Reach(h, v) ==
    IF v.t = "atom" THEN {}
    ELSE {v.addr} \cup UNION {Reach(h, h[v.addr][e]) : e \in 1..Len(h[v.addr])}

\* Variant of DeepCopy: copy.copy, a new list of the same items.
ShallowCopy(h, v) ==
    IF v.t = "atom" THEN [heap |-> h, value |-> v]
    ELSE [heap |-> Append(h, h[v.addr]), value |-> Ref(Len(h) + 1)]

\* deepcopy(self._value): an atom is returned as it is; for a list a new
\* object is made and filled with the deep copies of the items.
RECURSIVE DeepCopy(_, _)
RECURSIVE DeepCopyItems(_, _, _, _)
DeepCopy(h, v) ==
    IF v.t = "atom" THEN [heap |-> h, value |-> v]
    ELSE [heap |-> DeepCopyItems(Append(h, <<>>), h[v.addr], 1, Len(h) + 1),
          value |-> Ref(Len(h) + 1)]

DeepCopyItems(h, items, e, new) ==
    IF e > Len(items) THEN h
    ELSE LET Put(c) ==
                 DeepCopyItems([c.heap EXCEPT ![new] = Append(@, c.value)],
                               items, e + 1, new)
         IN Put(DeepCopy(h, items[e]))

\* The values a Constant is constructed with: a str, a list of a str, and a
\* list of a str and a list.
ConstantPool ==
    {[heap |-> <<>>, value |-> Atom("x")],
     [heap |-> << <<Atom("x")>> >>, value |-> Ref(1)],
     [heap |-> << <<Atom("x"), Ref(2)>>, <<Atom("y")>> >>, value |-> Ref(1)]}

\* Constant(value): the value is stored.
ConstantInit ==
    /\ IngestUnused
    /\ ChunkUnused
    /\ RecordUnused
    /\ CtorUnused
    /\ MessageUnused
    /\ FileUnused
    /\ \E c \in ConstantPool :
          /\ heap = c.heap
          /\ const_value = c.value
          /\ original = Deep(c.heap, c.value)
    /\ copies = <<>>
    /\ materialized = <<>>
    /\ mutations = 0

\* inbound_value = field_source.value, for one record.
ConstantValue ==
    /\ Len(copies) < MaxCopies
    /\ LET Store(c) ==
               /\ heap' = c.heap
               /\ copies' = Append(copies, c.value)
               /\ materialized' =
                      Append(materialized,
                             [value |-> Deep(c.heap, c.value), after |-> mutations])
       IN Store(DeepCopy(heap, const_value))
    /\ UNCHANGED <<const_value, original, mutations>>
    /\ UNCHANGED <<ingestVars, chunkVars, recordVars, ctorVars, messageVars,
                   fileVars>>

\* The objects of the values returned so far: what a step or a consumer of
\* the outbound records holds.
Held == UNION {Reach(heap, copies[p]) : p \in 1..Len(copies)}

\* A step or a consumer appends to a list it was given.
MutateAppend(o, a) ==
    /\ mutations < MaxMutations
    /\ o \in Held
    /\ heap' = [heap EXCEPT ![o] = Append(@, Atom(a))]
    /\ mutations' = mutations + 1
    /\ UNCHANGED <<const_value, original, copies, materialized>>
    /\ UNCHANGED <<ingestVars, chunkVars, recordVars, ctorVars, messageVars,
                   fileVars>>

\* A step or a consumer assigns to an item of a list it was given.
MutateSetItem(o, e, a) ==
    /\ mutations < MaxMutations
    /\ o \in Held
    /\ e \in 1..Len(heap[o])
    /\ heap' = [heap EXCEPT ![o][e] = Atom(a)]
    /\ mutations' = mutations + 1
    /\ UNCHANGED <<const_value, original, copies, materialized>>
    /\ UNCHANGED <<ingestVars, chunkVars, recordVars, ctorVars, messageVars,
                   fileVars>>

ConstantNext ==
    \/ ConstantValue
    \/ \E o \in DOMAIN heap, a \in Atoms : MutateAppend(o, a)
    \/ \E o \in DOMAIN heap, a \in Atoms :
          \E e \in 1..Len(heap[o]) : MutateSetItem(o, e, a)

SpecConstant == ConstantInit /\ [][ConstantNext]_vars

\* ------------------------------------------------- claims on Field.ingest
\* What the step of the j-th call returned (or that it raised).
CallOutcome(j) == Apply(field.steps[calls[j][1]], calls[j][2])

\* The j-th call failed by returning success = False with an ERROR message.
FailedWithError(j) ==
    LET out == CallOutcome(j) IN
    ~out.raised /\ ~out.success /\ out.message.status = "ERROR"

\* C1: with fail_on_error = False, after a step returned success = False with
\* an ERROR message, the loop goes on: the next step (if any) is called with
\* the value the failing step returned, and the failure is recorded as a
\* WARNING with the same content, not as an ERROR.
C1_ContinuesWithDowngrade ==
    \A j \in 1..Len(calls) :
        (~field.fail_on_error /\ FailedWithError(j))
        => LET out == CallOutcome(j)
               i == calls[j][1] IN
           /\ Message("WARNING", out.message.content) \in messages
           /\ out.message \notin messages
           /\ i < Len(field.steps)
              => IF Len(calls) = j
                 THEN pc = "steps" /\ k = i + 1 /\ value = out.value
                 ELSE calls[j + 1] = <<i + 1, out.value>>

C1_Witness ==
    /\ pc = "returned"
    /\ ~field.fail_on_error
    /\ Len(calls) = 2
    /\ FailedWithError(1)
    /\ CallOutcome(1).value # None
    /\ calls[2][2] = CallOutcome(1).value

\* C2: with fail_on_error = True, a step that returned success = False with an
\* ERROR message is the last step called, the field has failed, and the
\* message is in the set as it was returned (status ERROR).
C2_FailOnErrorHalts ==
    \A j \in 1..Len(calls) :
        (field.fail_on_error /\ FailedWithError(j))
        => /\ Len(calls) = j
           /\ pc \in {"nullcheck", "returned"}
           /\ ~field_success
           /\ CallOutcome(j).message \in messages

C2_Witness ==
    /\ pc = "returned"
    /\ field.fail_on_error
    /\ Len(calls) = 1
    /\ Len(field.steps) = 2
    /\ FailedWithError(1)
    /\ ~field_success

\* C3: a step that raised is the last step called, whatever fail_on_error is;
\* the exception does not leave ingest, the field has failed, and the set
\* holds an INTERNAL_ERROR message that names the step.
C3_ExceptionBecomesInternalError ==
    /\ pc # "raised"
    /\ \A j \in 1..Len(calls) :
          CallOutcome(j).raised
          => /\ Len(calls) = j
             /\ pc \in {"nullcheck", "returned"}
             /\ ~field_success
             /\ \E m \in messages :
                   /\ m.status = "INTERNAL_ERROR"
                   /\ \E p \in 1..Len(m.content) :
                         m.content[p] = field.steps[calls[j][1]].name

C3_Witness ==
    /\ pc = "returned"
    /\ ~field.fail_on_error
    /\ Len(calls) = 1
    /\ Len(field.steps) = 2
    /\ CallOutcome(1).raised
    /\ ~field_success

\* The raw input is None, or a str that is empty or all whitespace.
IsBlank(v) ==
    \/ v = None
    \/ v.t = "str" /\ \A i \in 1..Len(v.s) : v.s[i] \in Whitespace

\* C4: a mandatory field given None or an empty or all-whitespace str returns
\* (None, False, {ERROR "Null value received in mandatory field"}) and calls
\* none of its steps.
C4_MandatoryNull ==
    (field.mandatory /\ IsBlank(raw))
    => /\ pc \in {"call", "returned"}
       /\ calls = <<>>
       /\ pc = "returned"
          => /\ value = None
             /\ ~field_success
             /\ messages = {MandatoryNullMessage}
             /\ MandatoryNullMessage.status = "ERROR"

C4_Witness ==
    /\ pc = "returned"
    /\ field.mandatory
    /\ raw = StrV(<<" ", " ">>)
    /\ Len(field.steps) > 0
    /\ messages = {MandatoryNullMessage}

\* C5: when the loop of a non-mandatory, non-nullable field ends with a null
\* value and the field not failed, ingest returns value None, success False,
\* and the messages collected from the steps plus exactly one more, the ERROR
\* "Null value in non-nullable field after ingestion".
C5_NonNullableNull ==
    [][(/\ pc = "nullcheck"
        /\ ~field.mandatory
        /\ ~field.nullable
        /\ value = None
        /\ field_success)
       => (/\ pc' = "returned"
           /\ value' = None
           /\ ~field_success'
           /\ NonNullableMessage \notin messages
           /\ messages' = messages \cup {NonNullableMessage}
           /\ NonNullableMessage.status = "ERROR")]_vars

C5_Witness ==
    /\ pc = "returned"
    /\ ~field.mandatory
    /\ ~field.nullable
    /\ value = None
    /\ ~field_success
    /\ Len(calls) = Len(field.steps)
    /\ NonNullableMessage \in messages
    /\ Cardinality(messages) = 2
    /\ \A j \in 1..Len(calls) : ~CallOutcome(j).raised

\* C10: a returned success = True comes only with INFO and WARNING messages.
C10_SuccessHasNoErrors ==
    (pc = "returned" /\ field_success)
    => \A m \in messages : m.status \in {"INFO", "WARNING"}

\* ------------------------------------------------- claims on process_chunk
\* What applying the schema gives for each record of the chunk, in input order.
AppliedAll ==
    [j \in 1..Len(indexed_records) |->
        ApplyToRecord(schema, indexed_records[j], file_name)]

Succeeded(r) == r.success

\* The outbound records of the successful applications, in input order.
SuccessfulRows ==
    LET kept == SelectSeq(AppliedAll, Succeeded) IN
    [j \in 1..Len(kept) |-> kept[j].record]

ChunkIndices == {indexed_records[j][1] : j \in 1..Len(indexed_records)}

\* C6: the call with a worker pool returns what the call with n_processes = 1
\* returned on the same records: the same table (same rows, same order) and
\* the same messages under the same record indices.
C6_ParallelEqualsSequential ==
    (run = 2 /\ cpc = "returned")
    => /\ first_result.set
       /\ result.table = first_result.table
       /\ result.all_messages = first_result.all_messages

C6_Witness ==
    /\ run = 2
    /\ cpc = "returned"
    /\ Len(workers) >= 2
    /\ mp_chunk_size = 1
    /\ Len(indexed_records) = MaxRecords
    /\ Len(result.table) = 2
    /\ finished[1] # 1
    /\ \E i \in DOMAIN result.all_messages : result.all_messages[i] # {}

\* C7: whatever the worker count and the order the workers finish in, the
\* returned table lists the successful records in input order (ascending
\* record index), and each entry of the messages dict is stored under the
\* index of the record whose messages it holds.
C7_OrderAndAttribution ==
    cpc = "returned"
    => /\ result.table = SuccessfulRows
       /\ \A i \in DOMAIN result.all_messages :
             \E j \in 1..Len(indexed_records) :
                /\ indexed_records[j][1] = i
                /\ result.all_messages[i] = AppliedAll[j].messages
       /\ \A j \in 1..Len(indexed_records) :
             \A m \in AppliedAll[j].messages :
                m \in result.all_messages[indexed_records[j][1]]

C7_Witness ==
    /\ run = 2
    /\ cpc = "returned"
    /\ Len(workers) >= 2
    /\ Len(tasks) >= 2
    /\ finished[1] = 2
    /\ indexed_records[1][1] > 0
    /\ Len(result.table) >= 2
    /\ result.table[1] # result.table[2]

\* C8 as stated: a record index is a key of the returned dict exactly when the
\* record produced at least one message.
C8_KeyIffHasMessages ==
    cpc = "returned"
    => \A j \in 1..Len(indexed_records) :
          (indexed_records[j][1] \in DOMAIN result.all_messages)
          <=> (AppliedAll[j].messages # {})

\* C8, amended: every record index of the chunk is a key of the returned dict,
\* and its entry is the set of that record's messages, which is empty exactly
\* when the record produced none.
C8_EveryIndexIsAKey ==
    cpc = "returned"
    => /\ DOMAIN result.all_messages = ChunkIndices
       /\ \A j \in 1..Len(indexed_records) :
             result.all_messages[indexed_records[j][1]] = AppliedAll[j].messages

C8_Witness ==
    /\ cpc = "returned"
    /\ run = 2
    /\ \E i \in DOMAIN result.all_messages : result.all_messages[i] = {}
    /\ \E j \in 1..Len(indexed_records) :
          /\ AppliedAll[j].success
          /\ AppliedAll[j].messages # {}
          /\ result.all_messages[indexed_records[j][1]] = AppliedAll[j].messages

\* C9: a record that fails does not end the call: the call raises only when
\* its arguments give no pool, the task the iteration waits for is never lost
\* (it is queued, with a worker, or back), and on return every record was
\* handled, the table holds exactly the records whose application succeeded,
\* and the messages of each failed record are in the dict under its index.
C9_FailureDoesNotAbort ==
    /\ cpc = "raised" => (n_processes < 0 \/ PoolSize < 1)
    /\ (cpc = "iterating" /\ pool = "open" /\ pending = <<>>
           /\ next_task <= Len(tasks))
       => \/ next_task \in DOMAIN cache
          \/ \E w \in DOMAIN workers : workers[w] = next_task
          \/ \E q \in 1..Len(taskq) : taskq[q] = next_task
    /\ cpc = "returned"
       => /\ Len(result.table) = Cardinality({j \in 1..Len(indexed_records) :
                                                 AppliedAll[j].success})
          /\ \A q \in 1..Len(result.table) :
                \E j \in 1..Len(indexed_records) :
                   AppliedAll[j].success /\ AppliedAll[j].record = result.table[q]
          /\ \A j \in 1..Len(indexed_records) :
                /\ indexed_records[j][1] \in DOMAIN result.all_messages
                /\ ~AppliedAll[j].success
                   => /\ AppliedAll[j].messages # {}
                      /\ result.all_messages[indexed_records[j][1]]
                            = AppliedAll[j].messages

C9_Witness ==
    /\ cpc = "returned"
    /\ run = 2
    /\ Len(indexed_records) = 3
    /\ AppliedAll[1].success
    /\ ~AppliedAll[2].success
    /\ AppliedAll[3].success
    /\ Len(result.table) = 2
    /\ result.all_messages[indexed_records[2][1]] # {}

\* -------------------------------------------- claims on _apply_to_record
\* C11: when _apply_to_record returns, every field of the schema was ingested
\* (a failed field did not end the loop), the returned success is the
\* conjunction of the fields' successes, and the returned set of messages is
\* the union of the fields' sets.
C11_RecordAggregates ==
    apc = "returned"
    => /\ Len(ingests) = Len(self_fields)
       /\ record_success <=> \A j \in 1..Len(ingests) : ingests[j].result.success
       /\ record_messages = UNION {ingests[j].result.messages : j \in 1..Len(ingests)}
       /\ \A j \in 1..Len(ingests) :
             ingests[j].result = Ingest(self_fields[j], ingests[j].inbound)

C11_Witness ==
    /\ apc = "returned"
    /\ Len(self_fields) = 2
    /\ ~ingests[1].result.success
    /\ ingests[2].result.success
    /\ ingests[1].result.messages # {}
    /\ ingests[2].result.messages # {}
    /\ ~record_success
    /\ Cardinality(record_messages) = 2

\* C16: the value handed to a field's ingest comes from the field's source:
\* for a column name the record's value under that key, None when the key is
\* absent; for a Special the file name, the record index, or the record index
\* plus one; for a Constant its value.
C16_SourceResolution ==
    \A j \in 1..Len(ingests) :
        LET src == self_fields[j].name
            i == indexed_record[1]
            rec == indexed_record[2]
            v == ingests[j].inbound IN
        /\ (src.kind = "column" /\ src.col \in DOMAIN rec) => v = rec[src.col]
        /\ (src.kind = "column" /\ src.col \notin DOMAIN rec) => v = None
        /\ (src.kind = "special" /\ src.col = "file_name") => v = record_file_name
        /\ (src.kind = "special" /\ src.col = "record_index") => v = IntV(i)
        /\ (src.kind = "special" /\ src.col = "record_number") => v = IntV(i + 1)
        /\ src.kind = "constant" => v = src.value

C16_Witness ==
    /\ apc = "returned"
    /\ self_fields = <<FieldNumber, FieldMissing>>
    /\ indexed_record[1] = 3
    /\ ingests[1].inbound = IntV(4)
    /\ ingests[2].inbound = None
    /\ outbound_record[1] = [name |-> "num", value |-> IntV(4)]

\* The orders the fields of the schema can be declared in.
FieldOrders ==
    {pi \in [1..Len(self_fields) -> 1..Len(self_fields)] :
        \A p, q \in 1..Len(self_fields) : pi[p] = pi[q] => p = q}

Permuted(pi) == [p \in 1..Len(self_fields) |-> self_fields[pi[p]]]

\* C23: the fields of a schema are independent. The value stored for a field
\* is what the field's ingest makes of the field's own source value; and the
\* same record under the same fields in any other order gives the same
\* success and the same messages, and the same value under every outbound
\* name, only in the columns' new order (a call that raises, raises in
\* every order).
C23_FieldsIndependent ==
    /\ apc = "raised"
       => \A pi \in FieldOrders :
             ApplyToRecord(Permuted(pi), indexed_record, record_file_name).raised
    /\ apc = "returned"
       => /\ \A j \in 1..Len(self_fields) :
                outbound_record[j] =
                    [name |-> self_fields[j].outbound_name,
                     value |-> Ingest(self_fields[j],
                                      InboundValue(self_fields[j], indexed_record[1],
                                                   indexed_record[2],
                                                   record_file_name)).value]
          /\ \A pi \in FieldOrders :
                LET other == ApplyToRecord(Permuted(pi), indexed_record,
                                           record_file_name) IN
                /\ ~other.raised
                /\ other.success = record_success
                /\ other.messages = record_messages
                /\ Len(other.record) = Len(outbound_record)
                /\ \A p \in 1..Len(outbound_record) :
                      other.record[p] = outbound_record[pi[p]]

C23_Witness ==
    /\ apc = "returned"
    /\ self_fields = <<FieldBStrict, FieldA>>
    /\ ~ingests[1].result.success
    /\ ingests[1].result.messages # {}
    /\ ingests[2].result.success
    /\ ingests[2].result.value = StrV(<<"x">>)
    /\ ApplyToRecord(<<FieldA, FieldBStrict>>, indexed_record, record_file_name).record
           = <<outbound_record[2], outbound_record[1]>>
    /\ outbound_record[2] # outbound_record[1]

\* ---------------------------------------------- claims on construction
\* C13: every call of Field with mandatory and nullable both true raises and
\* constructs nothing, whatever the name, the steps, the outbound name and
\* fail_on_error are; no constructed Field is both mandatory and nullable.
C13_MandatoryNullableRejected ==
    /\ \A j \in 1..Len(built) : ~(built[j].mandatory /\ built[j].nullable)
    /\ \A c \in 1..Len(field_args) :
          (field_args[c].mandatory /\ field_args[c].nullable)
          => (ctor_error.exc \in {"ValueError", "TypeError"} /\ built = <<>>)

C13_Witness ==
    /\ Len(field_args) = 1
    /\ field_args[1].mandatory
    /\ field_args[1].nullable
    /\ field_args[1].name = Constant(StrV(<<"7">>))
    /\ field_args[1].steps = OneStep(BuiltinParserInt)
    /\ field_args[1].fail_on_error
    /\ ctor_error = BothMandatoryAndNullable
    /\ built = <<>>

\* Two fields of the Schema under construction have the same outbound name.
SharedOutboundName ==
    \E p, q \in 1..Len(schema_fields) :
        p # q /\ schema_fields[p].outbound_name = schema_fields[q].outbound_name

\* C14: Schema(*fields) on fields two of which share an outbound name never
\* gets past its loop and raises; it raises for no other reason, and in a
\* constructed Schema the outbound names are pairwise distinct.
C14_DuplicateNamesRejected ==
    /\ ctor = "done" => ~SharedOutboundName
    /\ (ctor = "schema" /\ SharedOutboundName) => name_at <= Len(schema_fields)
    /\ ctor = "raised"
       => /\ SharedOutboundName
          /\ ctor_error = DuplicateOutboundName
          /\ schema_fields[name_at].outbound_name \in unique_names

C14_Witness ==
    /\ ctor = "raised"
    /\ Len(schema_fields) = 2
    /\ schema_fields[1] # schema_fields[2]
    /\ ctor_error = DuplicateOutboundName

\* --------------------------------------------------- claims on Message
\* The calls made so far are all `op`.
OnlyCalls(op, n) == Len(ops) = n /\ \A p \in 1..n : ops[p] = op

\* C15: downgrade takes ERROR to WARNING and WARNING to INFO, upgrade takes
\* INFO to WARNING and WARNING to ERROR, so two downgrades take ERROR to INFO
\* and two upgrades take INFO to ERROR; neither changes an INTERNAL_ERROR;
\* every call returns a Message (a status __post_init__ accepts) with the
\* content unchanged.
C15_SeverityAlgebra ==
    /\ ~MessageInitRaises(message.status)
    /\ message.content = message0.content
    /\ message0.status = "INTERNAL_ERROR" => message = message0
    /\ (OnlyCalls("downgrade", 1) /\ message0.status = "ERROR")
       => message.status = "WARNING"
    /\ (OnlyCalls("downgrade", 1) /\ message0.status = "WARNING")
       => message.status = "INFO"
    /\ (OnlyCalls("upgrade", 1) /\ message0.status = "INFO")
       => message.status = "WARNING"
    /\ (OnlyCalls("upgrade", 1) /\ message0.status = "WARNING")
       => message.status = "ERROR"
    /\ (OnlyCalls("downgrade", 2) /\ message0.status = "ERROR")
       => message.status = "INFO"
    /\ (OnlyCalls("upgrade", 2) /\ message0.status = "INFO")
       => message.status = "ERROR"

C15_Witness ==
    /\ OnlyCalls("downgrade", 2)
    /\ message0 = NonNullableMessage
    /\ message = Message("INFO", NonNullableMessage.content)

\* ---------------------------------------------- claims on process_file
\* The positions in the stream of the records of the N-th chunk.
ChunkFirst(N) == (N - 1) * chunk_size + 1
ChunkLast(N) ==
    IF N * chunk_size < Len(stream) THEN N * chunk_size ELSE Len(stream)

\* What applying the schema gives for the record at position p of the stream
\* under the index p - 1.
AppliedAt(p) == ApplyToRecord(schema, <<p - 1, stream[p]>>, file_name)

\* The table and the message rows the N-th chunk of the stream should give
\* when every record is processed under its position in the stream.
TableOfChunk(N) ==
    LET all == [j \in 1..(ChunkLast(N) - ChunkFirst(N) + 1) |->
                   AppliedAt(ChunkFirst(N) + j - 1)]
        kept == SelectSeq(all, Succeeded) IN
    [j \in 1..Len(kept) |-> kept[j].record]
RowsOfChunk(N) ==
    UNION {{<<p - 1, m.status, m.content>> : m \in AppliedAt(p).messages} :
              p \in ChunkFirst(N)..ChunkLast(N)}

\* The rows (inbound records) of the chunk process_chunk was called with.
ChunkRows == [j \in 1..Len(indexed_records) |-> indexed_records[j][2]]

\* C12: for the schema of a mandatory text field and an optional integer
\* field with fail_on_error = False, and the chunk of a valid record, a record
\* with an empty mandatory field and a record with a non-numeric optional
\* field, process_chunk returns the first and the third record in that order
\* (not the second), the third with a null optional field; the messages of
\* the second record are exactly one ERROR and those of the third exactly one
\* WARNING.
C12_EndToEnd ==
    (/\ fpc = "chunk"
     /\ cpc = "returned"
     /\ schema = SchemaOptionalInt
     /\ ChunkRows = <<RowValid, RowEmptyA, RowBadB>>)
    => /\ result.table =
             << <<[name |-> "a", value |-> StrV(<<"x">>)],
                  [name |-> "b", value |-> IntV(7)]>>,
                <<[name |-> "a", value |-> StrV(<<"x">>)],
                  [name |-> "b", value |-> None]>> >>
       /\ result.all_messages[indexed_records[1][1]] = {}
       /\ \E m \in result.all_messages[indexed_records[2][1]] :
             m.status = "ERROR" /\ result.all_messages[indexed_records[2][1]] = {m}
       /\ \E m \in result.all_messages[indexed_records[3][1]] :
             m.status = "WARNING" /\ result.all_messages[indexed_records[3][1]] = {m}

C12_Witness ==
    /\ fpc = "chunk"
    /\ cpc = "returned"
    /\ schema = SchemaOptionalInt
    /\ ChunkRows = <<RowValid, RowEmptyA, RowBadB>>
    /\ n_processes = 2
    /\ Len(result.table) = 2

\* C17: the index of a record is its zero-based position in the stream,
\* whatever the chunk size and the worker count: the j-th record of the N-th
\* chunk read carries the index (N - 1) * chunk_size + j - 1, no index is
\* carried twice, and the tables and message rows written are those of the
\* records processed under these indices (record_index and record_number
\* values in the rows, record indices in the message rows).
C17_GlobalRecordIndex ==
    /\ \A N \in 1..Len(chunks_read) :
          /\ Len(chunks_read[N]) = ChunkLast(N) - ChunkFirst(N) + 1
          /\ \A j \in 1..Len(chunks_read[N]) :
                chunks_read[N][j] =
                    <<ChunkFirst(N) + j - 2, stream[ChunkFirst(N) + j - 1]>>
    /\ \A N, M \in 1..Len(chunks_read) :
          \A j \in 1..Len(chunks_read[N]) :
             \A l \in 1..Len(chunks_read[M]) :
                chunks_read[N][j][1] = chunks_read[M][l][1] => (N = M /\ j = l)
    /\ fpc = "chunk" => indexed_records = chunks_read[Len(chunks_read)]
    /\ \A N \in 1..Len(parquet) : parquet[N] = TableOfChunk(N)
    /\ \A N \in 1..Len(message_rows) : BagToSet(message_rows[N]) = RowsOfChunk(N)

C17_Witness ==
    /\ fpc = "closed"
    /\ schema = SchemaNumbered
    /\ chunk_size = 2
    /\ n_processes = 2
    /\ Len(stream) = 3
    /\ Len(parquet) = 2
    /\ parquet[2] = << <<[name |-> "idx", value |-> IntV(2)],
                         [name |-> "num", value |-> IntV(3)],
                         [name |-> "b_strict", value |-> IntV(7)]>> >>
    /\ \E row \in BagToSet(message_rows[1]) : row[1] = 1

\* C18: a chunk is read only when the table and the message rows of every
\* chunk read before it are written; the table of a chunk is written before
\* its message rows; the N-th table and row batch written are those of the
\* N-th chunk read; and while a chunk is processed, the tasks of the workers
\* hold records of that chunk only.
C18_FlushedInOrder ==
    LET read == Len(chunks_read)
        RowsRead(N) ==
            UNION {{<<chunks_read[N][j][1], m.status, m.content>> :
                       m \in ApplyToRecord(schema, chunks_read[N][j],
                                           file_name).messages} :
                      j \in 1..Len(chunks_read[N])} IN
    /\ fpc \in {"read", "closed"}
       => Len(parquet) = read /\ Len(message_rows) = read
    /\ fpc \in {"chunk", "raised"}
       => Len(parquet) = read - 1 /\ Len(message_rows) = read - 1
    /\ fpc = "write_messages"
       => Len(parquet) = read /\ Len(message_rows) = read - 1
    /\ fpc = "closed" => consumed = Len(stream)
    /\ \A N \in 1..Len(message_rows) : BagToSet(message_rows[N]) = RowsRead(N)
    /\ \A N \in 1..Len(parquet) :
          \A q \in 1..Len(parquet[N]) :
             \E j \in 1..Len(chunks_read[N]) :
                ApplyToRecord(schema, chunks_read[N][j], file_name).record
                    = parquet[N][q]
    /\ \A t \in 1..Len(tasks) :
          \A j \in 1..Len(tasks[t]) :
             \E l \in 1..Len(chunks_read[read]) :
                tasks[t][j] = chunks_read[read][l]

C18_Witness ==
    /\ fpc = "chunk"
    /\ n_processes = 2
    /\ Len(chunks_read) = 2
    /\ Len(parquet) = 1
    /\ Len(message_rows) = 1
    /\ parquet[1] # <<>>
    /\ message_rows[1] # EmptyBag
    /\ \E w \in DOMAIN workers : workers[w] # 0

\* C19 as stated: when process_chunk raises with a worker pool, no worker
\* is still working on a task and no task is left in the queue.
C19_WorkersTornDown ==
    (cpc = "raised" /\ pool = "closed")
    => /\ \A w \in DOMAIN workers : workers[w] = 0
       /\ taskq = <<>>

\* A record of the chunk process_chunk was called with makes
\* _apply_to_record raise.
ChunkHasFault ==
    \E j \in 1..Len(indexed_records) :
        ApplyToRecord(schema, indexed_records[j], file_name).raised

\* C20: a chunk with a record whose application raises is never returned by
\* process_chunk (no table, no messages): the call raises, the exception
\* leaves process_file, and from then on nothing is written and no chunk is
\* read; the chunks before it are the only ones written.
C20_FaultIsFatal ==
    /\ []((fpc = "chunk" /\ cpc = "returned") => ~ChunkHasFault)
    /\ [](cpc = "raised" => (ChunkHasFault /\ ~result.set))
    /\ [](fpc = "write_messages" => ~ChunkHasFault)
    /\ [](fpc = "raised"
            => /\ cpc = "raised"
               /\ Len(parquet) = Len(chunks_read) - 1
               /\ Len(message_rows) = Len(chunks_read) - 1)
    /\ [][(cpc = "raised")
            => /\ cpc' = "raised"
               /\ fpc' \in {"chunk", "raised"}
               /\ UNCHANGED <<parquet, message_rows, consumed, chunks_read,
                              indexed_records, result, parquet_open>>]_vars

C20_Witness ==
    /\ fpc = "raised"
    /\ n_processes = 2
    /\ Len(chunks_read) = 2
    /\ Len(parquet) = 1
    /\ parquet[1] # <<>>
    /\ consumed < Len(stream)

CarriedNullAfter(j) ==
    IF Len(calls) = j THEN value = None ELSE calls[j + 1][2] = None

\* C22 as stated: with fail_on_error = False, after a step returned
\* success = False with an ERROR message, the value carried on is None,
\* whatever value the step returned.
C22_ValueNulled ==
    \A j \in 1..Len(calls) :
        (~field.fail_on_error /\ FailedWithError(j)) => CarriedNullAfter(j)

\* The j-th call returned success = False and no message.
FailedSilently(j) ==
    LET out == CallOutcome(j) IN
    ~out.raised /\ ~out.success /\ out.message = NoMessage

\* C26: for a step that returned success = False and no message, ingest makes
\* the ERROR "<step> reported failure". With fail_on_error = True that ERROR
\* is in the set, the field has failed and no later step is called; with
\* fail_on_error = False the set holds it as a WARNING (not as an ERROR) and
\* the loop goes on to the next step.
C26_SynthesizedFailure ==
    \A j \in 1..Len(calls) :
        FailedSilently(j)
        => LET i == calls[j][1]
               text == <<field.steps[i].name, "reported failure">> IN
           IF field.fail_on_error
           THEN /\ Message("ERROR", text) \in messages
                /\ ~field_success
                /\ Len(calls) = j
                /\ pc \in {"nullcheck", "returned"}
           ELSE /\ Message("WARNING", text) \in messages
                /\ Message("ERROR", text) \notin messages
                /\ i < Len(field.steps)
                   => IF Len(calls) = j THEN pc = "steps" /\ k = i + 1
                      ELSE calls[j + 1][1] = i + 1

C26_Witness ==
    /\ pc = "returned"
    /\ ~field.fail_on_error
    /\ Len(calls) = 2
    /\ FailedSilently(1)
    /\ field_success
    /\ Message("WARNING", <<field.steps[1].name, "reported failure">>) \in messages

\* The j-th call ended the loop: the step raised, or it failed and either
\* fail_on_error is set or its message is an INTERNAL_ERROR.
StoppedAt(j) ==
    LET out == CallOutcome(j) IN
    \/ out.raised
    \/ ~out.success /\ (field.fail_on_error \/ out.message.status = "INTERNAL_ERROR")

\* C27: the steps are called in declared order, each at most once; the first
\* call gets the normalized raw input (the stripped str), every later call the
\* value the call before it returned; after a call that ended the loop no
\* step is called.
C27_StepsInOrder ==
    /\ Len(calls) <= Len(field.steps)
    /\ \A j \in 1..Len(calls) : calls[j][1] = j
    /\ Len(calls) >= 1
       => calls[1][2] = (IF raw.t = "str" /\ Strip(raw.s) # <<>>
                         THEN StrV(Strip(raw.s))
                         ELSE IF raw.t = "str" THEN None ELSE raw)
    /\ \A j \in 1..Len(calls) :
          /\ j < Len(calls)
             => (~CallOutcome(j).raised /\ calls[j + 1][2] = CallOutcome(j).value)
          /\ StoppedAt(j) => (Len(calls) = j /\ pc # "steps")

C27_Witness ==
    /\ pc = "returned"
    /\ Len(calls) = 2
    /\ raw = StrV(<<" ", "7">>)
    /\ calls[1][2] = StrV(<<"7">>)
    /\ calls[2][2] = IntV(7)

\* The j-th call returned success = False with an INTERNAL_ERROR message.
FailedWithInternalError(j) ==
    LET out == CallOutcome(j) IN
    ~out.raised /\ ~out.success /\ out.message.status = "INTERNAL_ERROR"

\* C28: a step that returned success = False with an INTERNAL_ERROR message is
\* the last step called, also with fail_on_error = False; the field has
\* failed, and the message is in the set as it was returned, under no lower
\* status.
C28_ReturnedInternalErrorHalts ==
    \A j \in 1..Len(calls) :
        FailedWithInternalError(j)
        => /\ Len(calls) = j
           /\ pc \in {"nullcheck", "returned"}
           /\ ~field_success
           /\ CallOutcome(j).message \in messages
           /\ \A m \in messages :
                 m.content = CallOutcome(j).message.content
                 => m.status = "INTERNAL_ERROR"

C28_Witness ==
    /\ pc = "returned"
    /\ ~field.fail_on_error
    /\ Len(field.steps) = 2
    /\ Len(calls) = 1
    /\ FailedWithInternalError(1)
    /\ ~field_success

\* C29: the test after the loop adds the ERROR "Null value in non-nullable
\* field after ingestion" and fails the field exactly when the field has not
\* failed, the value is None and the field is not nullable; otherwise it
\* changes nothing. So the ERROR is in a returned set only with a None value
\* in a non-nullable field.
C29_NullCheckExactly ==
    /\ []((pc = "returned" /\ NonNullableMessage \in messages)
            => (value = None /\ ~field.nullable /\ ~field_success))
    /\ [][pc = "nullcheck"
            => IF field_success /\ value = None /\ ~field.nullable
               THEN /\ messages' = messages \cup {NonNullableMessage}
                    /\ ~field_success'
                    /\ value' = None
               ELSE /\ messages' = messages
                    /\ field_success' = field_success
                    /\ value' = value]_vars

C29_Witness ==
    /\ pc = "returned"
    /\ ~field.nullable
    /\ ~field.mandatory
    /\ value = None
    /\ ~field_success
    /\ Len(calls) = 1
    /\ NonNullableMessage \notin messages

\* C30: a field with mandatory = False, nullable = True, fail_on_error = False
\* returns success = True unless one of its steps raised or returned
\* success = False with an INTERNAL_ERROR message.
C30_DefaultPolicySucceeds ==
    (/\ pc = "returned"
     /\ ~field.mandatory
     /\ field.nullable
     /\ ~field.fail_on_error
     /\ \A j \in 1..Len(calls) :
           ~CallOutcome(j).raised /\ ~FailedWithInternalError(j))
    => field_success

C30_Witness ==
    /\ pc = "returned"
    /\ ~field.mandatory
    /\ field.nullable
    /\ ~field.fail_on_error
    /\ Len(calls) = 2
    /\ FailedWithError(1)
    /\ FailedSilently(2)
    /\ value = None
    /\ field_success

\* ------------------------------------------------ claims on the messages
\* How often a row was written to the messages file.
TimesWritten(row) ==
    LET RECURSIVE Upto(_)
        Upto(N) == IF N = 0 THEN 0
                   ELSE Upto(N - 1) + CopiesIn(row, message_rows[N])
    IN Upto(Len(message_rows))

RowsWritten == UNION {BagToSet(message_rows[N]) : N \in 1..Len(message_rows)}

\* The messages of the fields of the schema for the j-th record of the chunk.
FieldMessages(f, j) ==
    Ingest(schema[f],
           InboundValue(schema[f], indexed_records[j][1], indexed_records[j][2],
                        file_name)).messages

\* C24: the messages process_chunk returns for a record are the union of its
\* fields' messages, each (status, content) once also when several fields
\* gave the same message; and over the whole messages file every row
\* (record index, status, content) is written at most once.
C24_MessagesOnce ==
    /\ \A row \in RowsWritten : TimesWritten(row) = 1
    /\ (fpc = "chunk" /\ cpc = "returned")
       => \A j \in 1..Len(indexed_records) :
             LET got == result.all_messages[indexed_records[j][1]] IN
             /\ got = UNION {FieldMessages(f, j) : f \in 1..Len(schema)}
             /\ \A m \in got :
                   Cardinality({n \in got : n.status = m.status
                                             /\ n.content = m.content}) = 1

C24_Witness ==
    /\ fpc = "read"
    /\ schema = SchemaTwice
    /\ Len(message_rows) = 2
    /\ chunks_read[1] = <<<<0, RowBadB>>>>
    /\ chunks_read[2] = <<<<1, RowBadB>>>>
    /\ \E m \in Ingest(FieldB, StrV(<<"x">>)).messages :
          /\ m \in Ingest(FieldBAgain, StrV(<<"x">>)).messages
          /\ TimesWritten(<<0, m.status, m.content>>) = 1
          /\ TimesWritten(<<1, m.status, m.content>>) = 1

\* ------------------------------------------------- claims on Constant
\* C25: every call of Constant.value returns the value the Constant was
\* constructed with, in objects of its own: no object of a returned value
\* is an object of the Constant or of another returned value. So whatever
\* is done to the returned values, the value the Constant holds stays what
\* it was, and the later calls return it again.
C25_ConstantUnaliased ==
    /\ Deep(heap, const_value) = original
    /\ \A p \in 1..Len(copies) :
          /\ materialized[p].value = original
          /\ Reach(heap, copies[p]) \cap Reach(heap, const_value) = {}
          /\ \A q \in 1..Len(copies) :
                p # q => Reach(heap, copies[p]) \cap Reach(heap, copies[q]) = {}

C25_Witness ==
    /\ Len(copies) = 2
    /\ materialized[1].after = 0
    /\ materialized[2].after = 2
    /\ \E o \in Reach(heap, copies[1]) :
          o # copies[1].addr /\ heap[o] = <<Atom("x"), Atom("x")>>
    /\ Deep(heap, copies[1]) # original
    /\ Deep(heap, copies[2]) = original

\* --------------------------------------- further claims on process_chunk
\* C31 as stated: with n_processes = 0 the derived worker count is at least
\* 1 on a machine of any core count, so the pool is created (with at least
\* one worker) and the call does not raise.
C31_DerivedAtLeastOne ==
    (n_processes = 0 /\ cpc # "idle")
    => /\ DerivedProcesses(cpu_count) >= 1
       /\ pool # "none"
       /\ Len(workers) >= 1
       /\ cpc # "raised"

\* ------------------------------------------ further claims on process_file
\* The chunks read so far, one after the other.
ChunksJoined ==
    LET RECURSIVE Upto(_)
        Upto(N) == IF N = 0 THEN <<>> ELSE Upto(N - 1) \o chunks_read[N]
    IN Upto(Len(chunks_read))

\* A record of the stream makes _apply_to_record raise.
StreamHasFault ==
    \E p \in 1..Len(stream) :
        ApplyToRecord(schema, <<p - 1, stream[p]>>, file_name).raised

\* C32: for a finite stream and chunk_size >= 1 process_file terminates (by
\* raising only when a record's application raises) and is never stuck before
\* that. Every chunk holds
\* between 1 and chunk_size records, the chunks read so far joined are the
\* first records of the enumerated stream and, at the end, the whole of it;
\* no record is applied twice and at the end every record was applied once;
\* the parquet writer is closed only when the stream is used up and the
\* table and the rows of every chunk are written.
C32_TerminatesChunked ==
    /\ <>(fpc = "closed" \/ (fpc = "raised" /\ StreamHasFault))
    /\ [](FileCanStep \/ fpc \in {"closed", "raised"})
    /\ [](\A N \in 1..Len(chunks_read) :
             Len(chunks_read[N]) >= 1 /\ Len(chunks_read[N]) <= chunk_size)
    /\ [](/\ consumed <= Len(stream)
          /\ ChunksJoined = SubSeq(Enumerate(stream, 0), 1, consumed))
    /\ [](/\ \A r \in DOMAIN applied : applied[r] = 1
          /\ \A r \in DOMAIN applied :
                \E p \in 1..consumed : r = <<p - 1, stream[p]>>)
    /\ [](fpc = "closed"
            => /\ ChunksJoined = Enumerate(stream, 0)
               /\ \A p \in 1..Len(stream) :
                     /\ <<p - 1, stream[p]>> \in DOMAIN applied
                     /\ applied[<<p - 1, stream[p]>>] = 1)
    /\ [](~parquet_open
            => /\ fpc = "closed"
               /\ consumed = Len(stream)
               /\ Len(parquet) = Len(chunks_read)
               /\ Len(message_rows) = Len(chunks_read))

C32_Witness ==
    /\ fpc = "closed"
    /\ ~parquet_open
    /\ Len(stream) = 3
    /\ chunk_size = 2
    /\ n_processes = 2
    /\ Len(chunks_read) = 2
    /\ Len(chunks_read[1]) = 2
    /\ Len(chunks_read[2]) = 1
    /\ Len(parquet) = 2
    /\ \A p \in 1..3 : applied[<<p - 1, stream[p]>>] = 1

====
